---- MODULE Spec2Model ----
(***************************************************************************)
(* A model of the agent coordination substrate of browseragent:            *)
(*   - EventBus / MessageBus   (src/agent_system/agent_message.py)         *)
(*   - SharedMemory            (src/agent_system/shared_memory.py)         *)
(*                                                                         *)
(* The program runs on one asyncio event loop.  A coroutine runs without   *)
(* interruption until it awaits something that is not ready; an action of  *)
(* this model is therefore the run of one task from one suspension point   *)
(* to the next.  The loop's ready queue is first-in first-out              *)
(* (loop.call_soon), which the variable queue models.                      *)
(***************************************************************************)
EXTENDS Integers, Sequences, FiniteSets, TLC

\* ------------------------------------------------------------------------
\* Bounds of the model
\* ------------------------------------------------------------------------

\* Calls made on the bus in one behaviour: subscribe, unsubscribe and publish
\* (a publish made by a handler from inside its delivery counts as well).
MaxOps == 5

\* Calls of MessageBus.request in one behaviour.
MaxRequests == 2

\* ------------------------------------------------------------------------
\* agent_message.py : message kinds, handlers, messages
\* ------------------------------------------------------------------------

\* The values of the closed enumeration MessageType.
MessageType ==
    { "perception_page_analyzed", "perception_pattern_detected",
      "perception_elements_found",
      "reflection_action_evaluated", "reflection_progress_updated",
      "reflection_error_analyzed", "reflection_decision_made",
      "action_started", "action_completed", "action_failed",
      "planning_step_created", "planning_next_action", "planning_correction",
      "system_shutdown", "system_error" }

\* The kinds the publishers and subscribers of the model use.
UsedKinds == {"action_completed", "action_failed"}

\* The (kind, handler) pairs the model subscribes.
Registrations ==
    { <<"action_failed", "failing">>, <<"action_failed", "working">>,
      <<"action_failed", "relay">>, <<"action_completed", "working">> }

\* The kinds the publishers of the model publish.
PublishedKinds == {"action_failed"}

\* Agent names used as sender / recipient / agent_name.
Agents == {"agentA", "agentB"}

\* The handlers (callables) that get subscribed.
\*   failing : a handler that raises an Exception on every call
\*   working : a synchronous handler that returns normally
\*   relay   : a coroutine handler that awaits event_bus.publish(...) of a
\*             further message of the same kind from inside its delivery
Handlers == {"failing", "working", "relay"}

Behaviour(h) ==
    CASE h = "failing" -> "raise"
      [] h = "working" -> "ok"
      [] OTHER         -> "relay"

\* The agent_name a handler is subscribed with ("None": no agent_name).
Owner(h) ==
    CASE h = "failing" -> "agentA"
      [] h = "working" -> "agentB"
      [] OTHER         -> "None"

\* EventBus._max_history
max_history == 1000

VARIABLES
    subscribers,        \* EventBus._subscribers : kind -> list of handlers
    agent_subscribers,  \* EventBus._agent_subscribers : agent -> list of kinds
    caps,               \* the unsubscribe closures that subscribe has returned
    message_history,    \* EventBus._message_history
    pubs,               \* the calls of EventBus.publish, indexed by message id
    queue,              \* the event loop's ready queue (FIFO)
    received,           \* per handler: the ids of the messages it was called with
    ops,                \* number of calls made on the bus so far
    pending_requests,   \* MessageBus._pending_requests (its keys)
    requests,           \* the calls of MessageBus.request
    invoked,            \* the unsubscribe closures called so far (their ids)
    lastUnsub,          \* the last call of an unsubscribe closure
    lastQuery           \* the last call of get_message_history

busVars == << subscribers, agent_subscribers, caps, ops,
              message_history, pubs, queue, received,
              pending_requests, requests, invoked, lastUnsub, lastQuery >>

\* The bus's logs of calls.
busLogs == << invoked, lastUnsub, lastQuery >>

VARIABLES
    data,       \* SharedMemory._data : key -> value ("Absent": not held)
    locks,      \* SharedMemory._locks : key -> lock object (0: not held)
    held,       \* the lock objects that are locked
    heap,       \* the mutable objects: reference -> object
    wr,         \* per task: where it is in set / update
    running,    \* the task that runs now ("None": the loop picks the next)
    notified,   \* per key: calls of _notify_subscribers so far
    memOps,     \* operations started so far
    lastOp,     \* the last operation that finished its body, and what it saw
    lastWrite   \* per key: the value of the last set, while no update, delete
                \* or clear of the key has followed it ("NotSet" otherwise)

memVars == << data, locks, held, heap, wr, running, notified, memOps,
             lastOp, lastWrite >>

VARIABLES
    now,        \* the clock (time.time()), in ticks
    wt,         \* the call of wait_for: where it is, and how it ended
    wrote       \* a value the call waits for was stored before its timeout
                \* had elapsed

waitVars == << now, wt, wrote >>

VARIABLES
    ctx,        \* the ThinkingContext the engine works on
    thinkCalls, \* calls of think_step on it so far
    lastThink,  \* the last call of think_step: its input and how it ended
    lastCheck   \* the last call of should_continue: what it returned

thinkVars == << ctx, thinkCalls, lastThink, lastCheck >>

VARIABLES
    progress_history,   \* ReflectionAgent._progress_history, in tenths
    reflects,           \* calls of reflect_on_action so far
    lastReflect,        \* the last call of reflect_on_action: what it read
                        \* and what it returned
    run,                \* the coordinator's task run
    lastProcess,        \* the last call of an agent's process: what it
                        \* was given and how it ended
    hints               \* the content of the ContextHints that the store
                        \* holds under CONTEXT_HINTS

agentVars == << progress_history, reflects, lastReflect, run, lastProcess,
                hints >>

\* What the actions of one component leave alone: the other components.
outsideBus == << memVars, waitVars, thinkVars, agentVars >>
outsideMem == << busVars, now, wt, thinkVars, agentVars >>
outsideWait == << busVars, memVars, thinkVars, agentVars >>

\* The store but for its locked locks.
memButHeld == << data, locks, heap, wr, running, notified, memOps,
                lastOp, lastWrite >>

\* ---- helpers on lists (Python list semantics)

Range(s) == { s[i] : i \in DOMAIN s }

\* list.count(x)
Count(s, x) == Cardinality({ i \in DOMAIN s : s[i] = x })

\* list.remove(x) on a list that holds x: drops the first occurrence
RemoveFirst(s, x) ==
    LET i == CHOOSE j \in DOMAIN s : s[j] = x /\ \A l \in 1..(j-1) : s[l] # x
    IN  SubSeq(s, 1, i-1) \o SubSeq(s, i+1, Len(s))

\* ---- EventBus.subscribe / unsubscribe

Subscribe(k, h) ==
    /\ ops < MaxOps
    /\ ops' = ops + 1
    /\ subscribers' = [subscribers EXCEPT ![k] = Append(@, h)]
    /\ agent_subscribers' =
          IF Owner(h) # "None"
          THEN [agent_subscribers EXCEPT ![Owner(h)] = Append(@, k)]
          ELSE agent_subscribers
    /\ caps' = caps \cup {[id |-> Cardinality(caps) + 1, kind |-> k,
                            handler |-> h]}
    /\ UNCHANGED << message_history, pubs, queue, received,
                    pending_requests, requests, busLogs >>
    /\ UNCHANGED outsideBus

\* No closure called yet.
\*   cap    : the closure's id
\*   again  : the closure had been called before
\*   raised : the call ended with an exception
\*   nth    : the call's number among the calls on the bus
NoUnsub == [cap |-> 0, again |-> FALSE, raised |-> FALSE, nth |-> 0]

\* list.remove(handler) raises ValueError when the list does not hold it.
RemoveRaises(subs, h) == Count(subs, h) = 0

\* The closure returned by subscribe.  list.remove raises ValueError when the
\* handler is no longer in the list, and then nothing is changed.
Unsubscribe(c) ==
    /\ c \in caps
    /\ ops < MaxOps
    /\ ops' = ops + 1
    /\ invoked' = invoked \cup {c.id}
    /\ lastUnsub' = [cap |-> c.id, again |-> c.id \in invoked,
                     raised |-> RemoveRaises(subscribers[c.kind], c.handler),
                     nth |-> ops + 1]
    /\ IF RemoveRaises(subscribers[c.kind], c.handler)
       THEN UNCHANGED << subscribers, agent_subscribers >>
       ELSE /\ subscribers' =
                 [subscribers EXCEPT ![c.kind] = RemoveFirst(@, c.handler)]
            /\ agent_subscribers' =
                 IF /\ Owner(c.handler) # "None"
                    /\ Count(agent_subscribers[Owner(c.handler)], c.kind) > 0
                 THEN [agent_subscribers EXCEPT
                          ![Owner(c.handler)] = RemoveFirst(@, c.kind)]
                 ELSE agent_subscribers
    /\ UNCHANGED << caps, message_history, pubs, queue, received,
                    pending_requests, requests, lastQuery >>
    /\ UNCHANGED outsideBus

\* ---- EventBus.publish / _deliver_message

\* A plausible slip: past the capacity the newest message is dropped.
HistoryAfterDropsNewest(hist, m) ==
    LET h1 == Append(hist, m)
    IN  IF Len(h1) > max_history THEN SubSeq(h1, 1, Len(h1) - 1) ELSE h1

\* _message_history.append(message), then pop(0) past _max_history
HistoryAfter(hist, m) ==
    LET h1 == Append(hist, m)
    IN  IF Len(h1) > max_history THEN Tail(h1) ELSE h1

\* A plausible slip: the handlers are called in the loop itself, so the first
\* one that raises ends the loop.
TargetsUntilFailure(subs, m) ==
    LET bad == { i \in DOMAIN subs : Behaviour(subs[i]) = "raise" }
    IN  IF bad = {} THEN subs
        ELSE SubSeq(subs, 1, CHOOSE i \in bad : \A j \in bad : i <= j)

\* A plausible slip: the recipient is used as a routing filter.
TargetsForRecipient(subs, m) ==
    SelectSeq(subs, LAMBDA h : m.recipient = "None" \/ Owner(h) = m.recipient)

\* The handlers a publish makes a delivery coroutine for: every entry of the
\* subscriber list of the message's kind, whatever the recipient.
DeliveryTargets(subs, m) == subs

\* The delivery coroutines of one publish, in list order.
TasksFor(targets, m) ==
    [ i \in 1..Len(targets) |->
        [type |-> "deliver", h |-> targets[i], pub |-> m.id] ]

\* A plausible slip: new tasks run before the ones already waiting.
ScheduleFirst(q, tasks) == tasks \o q

\* asyncio.gather wraps the coroutines in tasks, in argument order; each task's
\* first step is queued behind whatever is already ready.
Schedule(q, tasks) == q \o tasks

\* What _deliver_message does with the handler's behaviour: an Exception is
\* caught and logged, so the coroutine always ends normally.
DeliveryEscapes(b) == FALSE

\* What the publisher gets from gather(*tasks, return_exceptions=True).
GatherResult(escaped) == "returned"

\* A plausible slip: publish waits for its deliveries also when there is
\* none to wait for.
PubRecordAwaiting(m, subs, targets, parent) ==
    [ msg      |-> m,
      snapshot |-> subs,
      left     |-> Len(targets),
      parent   |-> parent,
      escaped  |-> FALSE,
      state    |-> "awaiting" ]

\* The record of one call of publish.
\*   snapshot : the subscriber list of the kind when publish was called
\*   left     : delivery coroutines not yet finished
\*   parent   : the message whose delivery awaits this publish (0: none)
PubRecord(m, subs, targets, parent) ==
    [ msg      |-> m,
      snapshot |-> subs,
      left     |-> Len(targets),
      parent   |-> parent,
      escaped  |-> FALSE,
      state    |-> IF targets = << >> THEN "returned" ELSE "awaiting" ]

NewMessage(sender, kind, recipient) ==
    [ id |-> Len(pubs) + 1, kind |-> kind, sender |-> sender,
      recipient |-> recipient, req |-> 0 ]

\* One delivery coroutine of pub p has finished; when it was the last one the
\* gather future completes and the publisher is queued to resume.
FinishOne(ps, q, p, esc) ==
    LET ps1 == [ps EXCEPT ![p].left = @ - 1, ![p].escaped = @ \/ esc]
    IN  << ps1,
           IF ps1[p].left = 0
           THEN Append(q, [type |-> "resume", h |-> "None", pub |-> p])
           ELSE q >>

\* publish called by a task of the environment (an agent's send_message).
\* The lock is never held across a suspension, so taking it never waits and
\* the call runs up to the gather without interruption.
Publish(sender, kind, recipient) ==
    /\ ops < MaxOps
    /\ ops' = ops + 1
    /\ LET m       == NewMessage(sender, kind, recipient)
           targets == DeliveryTargets(subscribers[kind], m)
       IN  /\ message_history' = HistoryAfter(message_history, m)
           /\ pubs' = Append(pubs, PubRecord(m, subscribers[kind], targets, 0))
           /\ queue' = Schedule(queue, TasksFor(targets, m))
    /\ UNCHANGED << subscribers, agent_subscribers, caps, received,
                    pending_requests, requests, busLogs >>
    /\ UNCHANGED outsideBus

\* The event loop runs the first step of the delivery task at the head of the
\* ready queue: _deliver_message calls the handler with the message.
Deliver ==
    /\ queue # << >>
    /\ Head(queue).type = "deliver"
    /\ Head(queue).h \in Handlers
    /\ LET t    == Head(queue)
           m    == pubs[t.pub].msg
           rest == Tail(queue)
           b    == Behaviour(t.h)
       IN  /\ received' = [received EXCEPT ![t.h] = Append(@, m.id)]
           /\ IF b = "relay" /\ ops < MaxOps
              THEN \* the handler awaits publish(m2) from inside its delivery
                   LET m2 == NewMessage("relay", m.kind, "None")
                       targets == DeliveryTargets(subscribers[m.kind], m2)
                       rec == PubRecord(m2, subscribers[m.kind], targets, m.id)
                   IN  /\ ops' = ops + 1
                       /\ message_history' = HistoryAfter(message_history, m2)
                       /\ IF targets = << >>
                          THEN \* nothing to await: the handler ends at once
                               LET fin == FinishOne(Append(pubs, rec), rest,
                                                    t.pub, FALSE)
                               IN  pubs' = fin[1] /\ queue' = fin[2]
                          ELSE /\ pubs' = Append(pubs, rec)
                               /\ queue' = Schedule(rest, TasksFor(targets, m2))
              ELSE LET fin == FinishOne(pubs, rest, t.pub, DeliveryEscapes(b))
                   IN  /\ pubs' = fin[1]
                       /\ queue' = fin[2]
                       /\ UNCHANGED << ops, message_history >>
    /\ UNCHANGED << subscribers, agent_subscribers, caps,
                    pending_requests, requests, busLogs >>
    /\ UNCHANGED outsideBus

\* The publisher at the head of the ready queue resumes from the gather and
\* publish returns; a relay handler that awaited it ends, which finishes one
\* delivery of the publish it was called by.
Resume ==
    /\ queue # << >>
    /\ Head(queue).type = "resume"
    /\ LET p    == Head(queue).pub
           rest == Tail(queue)
           ps1  == [pubs EXCEPT ![p].state = GatherResult(pubs[p].escaped)]
       IN  IF pubs[p].parent = 0
           THEN pubs' = ps1 /\ queue' = rest
           ELSE LET fin == FinishOne(ps1, rest, pubs[p].parent, FALSE)
                IN  pubs' = fin[1] /\ queue' = fin[2]
    /\ UNCHANGED << subscribers, agent_subscribers, caps, ops, message_history,
                    received, pending_requests, requests, busLogs >>
    /\ UNCHANGED outsideBus

\* ---- MessageBus.request

\* The value request looks up: f"{message.message_type.value}_response"
ResponseValue(k) == k \o "_response"

\* MessageType(value) finds a member only for a value of the enumeration;
\* otherwise it raises ValueError.
ResponseKindExists(k) == ResponseValue(k) \in MessageType

\* The record of a call of request:
\*   listening : the response handler was subscribed (line 212)
\*   outcome   : "waiting", or how the call ended: "returned" (a response),
\*               "none" (timeout) or "raised" (an exception left the call)
\*   result    : the id of the message returned (0: none)
\* request(message, timeout): a fresh id is put in the message's metadata and
\* in _pending_requests, then the response kind is looked up.  When the lookup
\* raises, the call ends there: nothing is subscribed, nothing is published,
\* and the try/finally that pops the id has not been entered.  The rest of the
\* method (subscribe, publish, wait_for) is reached only when the lookup
\* finds a member.
Request(k) ==
    /\ Len(requests) < MaxRequests
    /\ LET id == Len(requests) + 1
       IN  /\ pending_requests' = pending_requests \cup {id}
           /\ requests' = Append(requests,
                 IF ResponseKindExists(k)
                 THEN [kind |-> k, listening |-> TRUE,  outcome |-> "waiting",
                       result |-> 0]
                 ELSE [kind |-> k, listening |-> FALSE, outcome |-> "raised",
                       result |-> 0])
    /\ UNCHANGED << subscribers, agent_subscribers, caps, ops, message_history,
                    pubs, queue, received, busLogs >>
    /\ UNCHANGED outsideBus

\* ---- EventBus.get_message_history

\* No query yet.
NoQuery == [sender |-> "None", kind |-> "None", limit |-> 0,
            result |-> << >>, nth |-> 0]

\* The filters: a sender or kind that is None (or empty) filters nothing.
Matches(m, sender, kind) ==
    /\ sender = "None" \/ m.sender = sender
    /\ kind = "None" \/ m.kind = kind

\* A plausible slip: the tail is cut by its length, so that a limit of 0
\* gives the empty list.
LastOf(s, limit) ==
    IF limit >= Len(s) THEN s ELSE SubSeq(s, Len(s) - limit + 1, Len(s))

\* history[-limit:] for a limit that is not negative: the last limit items,
\* the whole list when it has no more than limit of them -- and the whole
\* list for a limit of 0, since -0 is 0.
SliceLast(s, limit) ==
    IF limit = 0 \/ limit >= Len(s) THEN s
    ELSE SubSeq(s, Len(s) - limit + 1, Len(s))

\* get_message_history(sender, message_type, limit): the history is read,
\* not changed.
GetMessageHistory(sender, kind, limit) ==
    /\ ops < MaxOps
    /\ ops' = ops + 1
    /\ LET history == SelectSeq(message_history,
                                LAMBDA m : Matches(m, sender, kind))
           result == SliceLast(history, limit)
       IN  lastQuery' = [sender |-> sender, kind |-> kind, limit |-> limit,
                         result |-> [i \in DOMAIN result |-> result[i].id],
                         nth |-> ops + 1]
    /\ UNCHANGED << subscribers, agent_subscribers, caps, message_history,
                    pubs, queue, received, pending_requests, requests,
                    invoked, lastUnsub >>
    /\ UNCHANGED outsideBus

\* A new bus, and one whose history holds what was published before.
InitBusWith(history) ==
    /\ subscribers = [k \in UsedKinds |-> << >>]
    /\ agent_subscribers = [a \in Agents |-> << >>]
    /\ caps = {}
    /\ ops = 0
    /\ message_history = history
    /\ pubs = << >>
    /\ queue = << >>
    /\ received = [h \in Handlers |-> << >>]
    /\ pending_requests = {}
    /\ requests = << >>
    /\ invoked = {}
    /\ lastUnsub = NoUnsub
    /\ lastQuery = NoQuery

InitBus == InitBusWith(<< >>)

\* A bus that has published before, to no subscriber, two messages fewer
\* than its history can hold.  These messages have the ids up to 0.
EarlierMessages ==
    [ i \in 1..(max_history - 2) |->
        [ id |-> i - (max_history - 2), kind |-> "action_failed",
          sender |-> "agentA", recipient |-> "None", req |-> 0 ] ]

\* Publishers of one kind on that bus, one of them a handler that publishes
\* from inside its delivery.
NextHistory ==
    \/ Subscribe("action_failed", "relay")
    \/ \E a \in Agents : Publish(a, "action_failed", "None")
    \/ Deliver
    \/ Resume

\* The bus with its subscribers and publishers.
NextBus ==
    \/ \E r \in Registrations : Subscribe(r[1], r[2])
    \/ \E c \in caps : Unsubscribe(c)
    \/ \E k \in PublishedKinds, r \in {"None", "agentB"} : Publish("agentA", k, r)
    \/ Deliver
    \/ Resume


\* The history under publishes of two senders and two kinds, and the
\* queries on it.
QueryLimits == 0..3
NextQuery ==
    \/ \E a \in Agents, k \in UsedKinds : Publish(a, k, "None")
    \/ \E a \in Agents \cup {"None"}, k \in UsedKinds \cup {"None"},
          limit \in QueryLimits : GetMessageHistory(a, k, limit)

\* The request/response layer on a bus with one subscriber: requests of every
\* kind of the enumeration, interleaved with ordinary traffic.
NextRequest ==
    \/ \E k \in MessageType : Request(k)
    \/ Subscribe("action_failed", "working")
    \/ Publish("agentA", "action_failed", "None")
    \/ Deliver
    \/ Resume


\* ------------------------------------------------------------------------
\* shared_memory.py : SharedMemory
\* ------------------------------------------------------------------------

\* Operations on the store in one behaviour (set, update, delete, clear, and
\* the callers' creating or changing of a list or map they hold).
MaxMemOps == 4

\* Longest list a caller builds.
MaxLen == 2

\* The members of MemoryKey the model uses.
Keys == {"thought_chain", "error_history"}

\* The keys the thinking engine reads and writes besides.
EngineKeys == {"task_description", "current_url", "current_plan",
               "perception_result", "progress_score", "next_step"}

\* The keys the coordinator and its agents write besides.
AgentKeys == {"task_status", "page_title", "context_hints",
              "reflection_result", "last_action_result"}

AllKeys == Keys \cup EngineKeys \cup AgentKeys

\* Values: "Absent" stands for a key the dict does not hold, "None" for
\* Python's None; "0" and "1" are two plain values; Refs are references to
\* mutable objects (lists and maps) that callers build, keep and change.
Plain == {"None", "0", "1"}
Refs == {"r1", "r2"}

\* The fields of the maps, and what a field holds ("Absent": no such field).
Fields == {"a", "b"}
NoFields == [f \in Fields |-> "Absent"]

\* An object of the heap: a list (of equal items, so its length is its
\* content), a map, or a reference not yet in use.
FreeObj == [type |-> "free", list |-> << >>, map |-> NoFields]
ListObj(n) == [type |-> "list", list |-> [i \in 1..n |-> "e"], map |-> NoFields]
MapObj(m) == [type |-> "map", list |-> << >>, map |-> m]

\* The maps a caller passes to update or set.
MapInputs ==
    { [a |-> "1", b |-> "Absent"], [a |-> "0", b |-> "1"] }

\* The tasks that call the store.
Writers == {"w1", "w2"}

Idle == [pc |-> "idle", op |-> "none", key |-> "none", value |-> "None",
         lock |-> 0, pre |-> "None", post |-> "None"]

\* What is kept of the last operation:
\*   old      : the value the key held before ("None" when it held none)
\*   differs  : the new value is not equal to old
\*   afterMut : a set of the very list the key held, right after its caller
\*              changed that list
\*   raised   : the operation ended with an exception
\*   lock     : the lock object delete or clear dropped (0: none)
NoOp == [op |-> "none", key |-> "none", value |-> "None", old |-> "None",
         differs |-> FALSE, afterMut |-> FALSE, raised |-> FALSE, lock |-> 0]

\* SharedMemory.get(key, default)
Get(d, k, default) == IF d[k] = "Absent" THEN default ELSE d[k]

\* What a value is, by content: what Python's == and != compare.  Two lists
\* (or two maps) are equal when their items are, whichever objects they are.
Content(hp, v) ==
    IF v \in Refs THEN hp[v]
    ELSE [type |-> v, list |-> << >>, map |-> NoFields]

\* A plausible slip: comparing the objects (is not) instead of their values.
NotSameObject(hp, old, value) == old # value

\* old_value != value
PyNe(hp, old, value) == Content(hp, old) # Content(hp, value)

\* A plausible slip: the value is stored only when the key holds none yet.
StoreIfAbsent(d, k, v) == IF d[k] = "Absent" THEN [d EXCEPT ![k] = v] ELSE d

\* self._data[key] = value
Store(d, k, v) == [d EXCEPT ![k] = v]

\* dict.update: the fields of upd overlay those of cur
Overlay(cur, upd) ==
    [f \in Fields |-> IF upd[f] # "Absent" THEN upd[f] ELSE cur[f]]

\* A plausible slip: a notification that awaits its subscribers, so that the
\* writer is suspended inside its critical section.
NotifyAwaits == TRUE

\* _notify_subscribers only looks up the subscribers and logs: awaiting it
\* never suspends the caller.
NotifySuspends == FALSE

\* _get_lock: the key's lock, made when the key has none.  A new lock object
\* is one that is neither in _locks nor still referred to by a task.
InUse == { locks[k] : k \in AllKeys } \cup { wr[w].lock : w \in Writers }
FreshLock == CHOOSE n \in 1..(Cardinality(InUse) + 1) : n \notin InUse
GetLock(k) == IF locks[k] = 0 THEN FreshLock ELSE locks[k]

\* set / update up to the critical section: the lock is looked up (or made)
\* and taken.  A lock is never held across a suspension of its holder, so it
\* is free whenever a task gets to run; the call goes on when it is.
Enter(w, op, k, v) ==
    /\ running = "None"
    /\ wr[w].pc = "idle"
    /\ memOps < MaxMemOps
    /\ GetLock(k) \notin held
    /\ memOps' = memOps + 1
    /\ locks' = [locks EXCEPT ![k] = GetLock(k)]
    /\ held' = held \cup {GetLock(k)}
    /\ running' = w
    /\ wr' = [wr EXCEPT ![w] =
                [pc |-> "cs", op |-> op, key |-> k, value |-> v,
                 lock |-> GetLock(k),
                 pre |-> Content(heap, Get(data, k, "None")),
                 post |-> Content(heap, Get(data, k, "None"))]]
    /\ UNCHANGED << data, heap, notified, lastOp, lastWrite >>
    /\ UNCHANGED outsideMem
    /\ UNCHANGED wrote

SetBegin(w, k, v) ==
    /\ v \in Plain \/ (v \in Refs /\ heap[v].type # "free")
    /\ Enter(w, "set", k, v)

UpdateBegin(w, k, u) ==
    /\ u \in Refs
    /\ heap[u].type = "map"
    /\ Enter(w, "update", k, u)

\* wait_for's test of a value: predicate is None or predicate(value).  The
\* predicates are None ("any") and "the value is 1" ("isOne").
Satisfies(p, v) == p = "any" \/ v = "1"

\* The store takes, at an instant before the timeout of the pending call of
\* wait_for has elapsed, a value for the call's key that is not None and
\* that its predicate holds of.
Awaited(k, v) ==
    /\ wt.pc = "sleeping"
    /\ wt.key = k
    /\ now - wt.start < wt.timeout
    /\ v # "None"
    /\ Satisfies(wt.pred, v)

\* The body of set: old_value is read, the value is stored, and the
\* subscribers are notified when old_value != value.
SetBody(w) ==
    /\ running = w
    /\ wr[w].pc = "cs"
    /\ wr[w].op = "set"
    /\ LET k   == wr[w].key
           v   == wr[w].value
           old == Get(data, k, "None")
           ne  == PyNe(heap, old, v)
       IN  /\ data' = Store(data, k, v)
           /\ notified' = [notified EXCEPT ![k] = IF ne THEN @ + 1 ELSE @]
           /\ running' = IF ne /\ NotifySuspends THEN "None" ELSE w
           /\ wr' = [wr EXCEPT ![w].pc = "release",
                               ![w].post = Content(heap, v)]
           /\ lastOp' = [NoOp EXCEPT
                 !.op = "set", !.key = k, !.value = v, !.old = old,
                 !.differs = (Content(heap, old) # Content(heap, v)),
                 !.afterMut = /\ lastOp.op = "mutate"
                              /\ lastOp.value = v
                              /\ old = v]
           /\ lastWrite' = [lastWrite EXCEPT ![k] = v]
    /\ UNCHANGED << locks, held, heap, memOps >>
    /\ UNCHANGED outsideMem
    /\ wrote' = (wrote \/ Awaited(wr[w].key, wr[w].value))

\* The body of update: a map held by the key is changed in place; anything
\* else is replaced by the caller's map; then self._data[key] is read for the
\* notification, which raises KeyError when the key was not held (the merge
\* then went into a map that is thrown away).
UpdateBody(w) ==
    /\ running = w
    /\ wr[w].pc = "cs"
    /\ wr[w].op = "update"
    /\ LET k   == wr[w].key
           u   == wr[w].value
           cur == data[k]
           isMap == cur \in Refs /\ heap[cur].type = "map"
       IN  /\ heap' = IF isMap
                      THEN [heap EXCEPT ![cur].map = Overlay(@, heap[u].map)]
                      ELSE heap
           /\ data' = IF isMap \/ cur = "Absent" THEN data ELSE Store(data, k, u)
           /\ notified' = IF cur = "Absent" THEN notified
                          ELSE [notified EXCEPT ![k] = @ + 1]
           /\ running' = IF cur # "Absent" /\ NotifySuspends THEN "None" ELSE w
           /\ wr' = [wr EXCEPT ![w].pc = "release",
                       ![w].post =
                           IF cur = "Absent" THEN wr[w].pre
                           ELSE IF isMap
                                THEN MapObj(Overlay(heap[cur].map, heap[u].map))
                                ELSE heap[u]]
           /\ lastOp' = [NoOp EXCEPT
                 !.op = "update", !.key = k, !.value = u,
                 !.old = Get(data, k, "None"), !.raised = (cur = "Absent")]
           /\ lastWrite' = [lastWrite EXCEPT ![k] = "NotSet"]
    /\ wrote' = (wrote \/ ( /\ data[wr[w].key] # "Absent"
                            /\ Awaited(wr[w].key, data'[wr[w].key]) ))
    /\ UNCHANGED << locks, held, memOps >>
    /\ UNCHANGED outsideMem

\* The end of "async with lock": the lock is released, on the normal and on
\* the exceptional way out.
Release(w) ==
    /\ running \in {w, "None"}
    /\ wr[w].pc = "release"
    /\ held' = held \ {wr[w].lock}
    /\ wr' = [wr EXCEPT ![w] = Idle]
    /\ running' = "None"
    /\ UNCHANGED << data, locks, heap, notified, memOps, lastOp, lastWrite >>
    /\ UNCHANGED outsideMem
    /\ UNCHANGED wrote

\* delete(key): the value and the key's lock object are dropped.
Delete(k) ==
    /\ running = "None"
    /\ memOps < MaxMemOps
    /\ memOps' = memOps + 1
    /\ data' = [data EXCEPT ![k] = "Absent"]
    /\ locks' = [locks EXCEPT ![k] = 0]
    /\ lastOp' = [NoOp EXCEPT !.op = "delete", !.key = k,
                              !.old = Get(data, k, "None"), !.lock = locks[k]]
    /\ lastWrite' = [lastWrite EXCEPT ![k] = "NotSet"]
    /\ UNCHANGED << held, heap, wr, running, notified >>
    /\ UNCHANGED outsideMem
    /\ UNCHANGED wrote

\* clear(): all values and all lock objects are dropped.
Clear ==
    /\ running = "None"
    /\ memOps < MaxMemOps
    /\ memOps' = memOps + 1
    /\ data' = [k \in AllKeys |-> "Absent"]
    /\ locks' = [k \in AllKeys |-> 0]
    /\ lastOp' = [NoOp EXCEPT !.op = "clear"]
    /\ lastWrite' = [k \in AllKeys |-> "NotSet"]
    /\ UNCHANGED << held, heap, wr, running, notified >>
    /\ UNCHANGED outsideMem
    /\ UNCHANGED wrote

\* A caller builds a new list or map.
NewObject(r, obj) ==
    /\ running = "None"
    /\ memOps < MaxMemOps
    /\ heap[r].type = "free"
    /\ \A q \in Refs : (heap[q].type = "free" /\ q # r) => r = "r1"
    /\ memOps' = memOps + 1
    /\ heap' = [heap EXCEPT ![r] = obj]
    /\ UNCHANGED << data, locks, held, wr, running, notified, lastOp,
                    lastWrite >>
    /\ UNCHANGED outsideMem
    /\ UNCHANGED wrote

\* A caller appends to a list it holds (think_step appends to the thought
\* chain, analyze_error to the list it got from the store).
Mutate(r) ==
    /\ running = "None"
    /\ memOps < MaxMemOps
    /\ heap[r].type = "list"
    /\ Len(heap[r].list) < MaxLen
    /\ memOps' = memOps + 1
    /\ heap' = [heap EXCEPT ![r].list = Append(@, "e")]
    /\ lastOp' = [NoOp EXCEPT !.op = "mutate", !.value = r]
    /\ UNCHANGED << data, locks, held, wr, running, notified, lastWrite >>
    /\ UNCHANGED outsideMem
    /\ UNCHANGED wrote

InitMem ==
    /\ data = [k \in AllKeys |-> "Absent"]
    /\ locks = [k \in AllKeys |-> 0]
    /\ held = {}
    /\ heap = [r \in Refs |-> FreeObj]
    /\ wr = [w \in Writers |-> Idle]
    /\ running = "None"
    /\ notified = [k \in AllKeys |-> 0]
    /\ memOps = 0
    /\ lastOp = NoOp
    /\ lastWrite = [k \in AllKeys |-> "NotSet"]

NextMem ==
    \/ \E w \in Writers, k \in Keys, v \in Plain \cup Refs : SetBegin(w, k, v)
    \/ \E w \in Writers, k \in Keys, u \in Refs : UpdateBegin(w, k, u)
    \/ \E w \in Writers : SetBody(w)
    \/ \E w \in Writers : UpdateBody(w)
    \/ \E w \in Writers : Release(w)
    \/ \E k \in Keys : Delete(k)
    \/ Clear
    \/ \E r \in Refs : NewObject(r, ListObj(0))
    \/ \E r \in Refs, m \in MapInputs : NewObject(r, MapObj(m))
    \/ \E r \in Refs : Mutate(r)

\* ---- SharedMemory.wait_for

\* The end of the clock, and the longest timeout, in ticks.
MaxTime == 5
MaxTimeout == 4

\* asyncio.sleep(0.1): a tick is 0.05 s.
PollInterval == 2

\* The key the call waits for.
WaitKeys == {"error_history"}

NoWait == [pc |-> "idle", key |-> "none", pred |-> "any", start |-> 0,
           timeout |-> 0, wakeAt |-> 0, result |-> "None"]

\* A plausible slip: the test "if value:" in place of "is not None".
AcceptedIfTruthy(p, v) == v \notin {"None", "0"} /\ Satisfies(p, v)

\* value is not None, and predicate is None or predicate(value)
Accepted(p, v) == v # "None" /\ Satisfies(p, v)

\* A plausible slip: the loop runs inside "async with" of the key's lock.
HeldWithKeyLock(k, h) == h \cup ({locks[k]} \ {0})

\* The locks that are locked once wait_for has polled and sleeps, or has
\* ended: wait_for takes none, they are the ones locked before.
HeldAcrossSleep(k, h) == h

\* One round of the loop, entered at an instant at which less than the
\* timeout has elapsed: the value is read and returned when it is accepted;
\* otherwise the call sleeps for the polling interval.
Poll(w) ==
    LET v == Get(data, w.key, "None")
    IN  IF Accepted(w.pred, v)
        THEN [w EXCEPT !.pc = "returned", !.result = v]
        ELSE [w EXCEPT !.pc = "sleeping", !.wakeAt = now + PollInterval]

\* wait_for(key, timeout, predicate): the clock is read and the loop is
\* entered, unless the timeout is not positive: the call then raises
\* TimeoutError without having read the value.
WaitFor(k, T, p) ==
    /\ running = "None"
    /\ wt.pc = "idle"
    /\ LET w == [NoWait EXCEPT !.key = k, !.pred = p, !.start = now,
                                !.timeout = T]
       IN  /\ wt' = IF 0 < T THEN Poll(w) ELSE [w EXCEPT !.pc = "timeout"]
           /\ wrote' = (0 < T /\ Accepted(p, Get(data, k, "None")))
    /\ held' = HeldAcrossSleep(k, held)
    /\ UNCHANGED now
    /\ UNCHANGED << busVars, memButHeld, thinkVars, agentVars >>

\* The sleep is over: the loop's condition is tested again, and the call
\* polls once more or raises TimeoutError.
WaitWake ==
    /\ running = "None"
    /\ wt.pc = "sleeping"
    /\ now = wt.wakeAt
    /\ wt' = IF now - wt.start < wt.timeout
             THEN Poll(wt)
             ELSE [wt EXCEPT !.pc = "timeout"]
    /\ held' = HeldAcrossSleep(wt.key, held)
    /\ UNCHANGED << now, wrote >>
    /\ UNCHANGED << busVars, memButHeld, thinkVars, agentVars >>

\* Time passes, while no task runs and the sleeper is not due.
Tick ==
    /\ running = "None"
    /\ now < MaxTime
    /\ wt.pc = "sleeping" => now < wt.wakeAt
    /\ now' = now + 1
    /\ UNCHANGED << wt, wrote >>
    /\ UNCHANGED outsideWait

InitWait ==
    /\ now = 0
    /\ wt = NoWait
    /\ wrote = FALSE

\* One call of wait_for, beside a task that sets and deletes plain values
\* under the key the call waits for.
NextWait ==
    \/ \E k \in WaitKeys, T \in 0..MaxTimeout, p \in {"any", "isOne"} :
          WaitFor(k, T, p)
    \/ WaitWake
    \/ Tick
    \/ \E k \in WaitKeys, v \in Plain : SetBegin("w1", k, v)
    \/ SetBody("w1")
    \/ Release("w1")
    \/ \E k \in WaitKeys : Delete(k)

\* wait_for beside a task that sets plain values and maps, merges maps into
\* the key with update, and deletes.
NextWaitWrite ==
    \/ \E k \in WaitKeys, T \in 0..MaxTimeout, p \in {"any", "isOne"} :
          WaitFor(k, T, p)
    \/ WaitWake
    \/ Tick
    \/ \E m \in MapInputs : NewObject("r1", MapObj(m))
    \/ \E k \in WaitKeys, v \in {"None", "1", "r1"} : SetBegin("w1", k, v)
    \/ \E k \in WaitKeys : UpdateBegin("w1", k, "r1")
    \/ SetBody("w1")
    \/ UpdateBody("w1")
    \/ Release("w1")
    \/ \E k \in WaitKeys : Delete(k)

\* ------------------------------------------------------------------------
\* sequential_thinking.py : ThinkingContext, SequentialThinkingEngine
\* ------------------------------------------------------------------------

\* The largest max_steps and max_errors of a context, and the calls of
\* think_step in one behaviour.
MaxSteps == 3
MaxErrors == 2
MaxThinkCalls == 4

\* No context yet.  origin tells how the context came to be: "created" by
\* create_thinking_context, or "built" by a caller with fields of its choice.
\* chain holds the step numbers of thought_chain, list the list object.
NoContext == [origin |-> "none", current_step |-> 0, max_steps |-> 0,
              chain |-> << >>, list |-> "None", completed |-> FALSE,
              error_count |-> 0, max_errors |-> 0]

\* failed counts the calls made with a previous result that reports failure.
\* entry is the index of the plan entry the action was taken from (0 when
\* none was), next_thought the hint of _plan_next_thought.
NoThink == [outcome |-> "none", previous |-> "None", action |-> "none",
            failed |-> 0, entry |-> 0, next_thought |-> "none"]

\* success is false, in the object and in the map form.
ReportsFailure(previous) == previous \in {"failed_object", "failed_map"}

\* nth tells the calls apart: it is the number of calls so far, modulo 2.
NoCheck == [done |-> FALSE, result |-> FALSE, reason |-> "none", nth |-> 0]

\* The previous results think_step is called with: none, an object with the
\* attribute success, or the map {"success": ..., "action": ...} that the
\* coordinator stores as last action result.
PreviousResults ==
    {"None", "ok_object", "failed_object", "ok_map", "failed_map"}

\* A slip: the error budget is tested before the step budget.
ContinueReasonErrorsFirst(c) ==
    IF c.error_count >= c.max_errors THEN "max_errors"
    ELSE IF c.current_step >= c.max_steps THEN "max_steps"
    ELSE IF c.completed THEN "completed"
    ELSE "continue"

\* A slip: completion is looked up in the stored score again, not only in
\* the flag.
ContinueReasonByScore(c) ==
    IF c.current_step >= c.max_steps THEN "max_steps"
    ELSE IF c.error_count >= c.max_errors THEN "max_errors"
    ELSE IF c.completed /\ data["progress_score"] = "1" THEN "completed"
    ELSE "continue"

\* What should_continue finds first, in the order of its tests.
ContinueReason(c) ==
    IF c.current_step >= c.max_steps THEN "max_steps"
    ELSE IF c.error_count >= c.max_errors THEN "max_errors"
    ELSE IF c.completed THEN "completed"
    ELSE "continue"

\* A plausible slip: > in place of >= in the test of the step budget.
ShouldContinueOff(c) ==
    /\ ~(c.current_step > c.max_steps)
    /\ ~(c.error_count >= c.max_errors)
    /\ ~c.completed

\* should_continue(context)
ShouldContinue(c) == ContinueReason(c) = "continue"

\* "await x" raises TypeError unless x is a coroutine, a task or a future.
\* SharedMemory.get is a plain method: what the engine awaits is the value
\* it returns, and no value of the store is awaitable.
Awaitable(v) == FALSE

\* _generate_thought counts an error when previous_result is truthy, has the
\* attribute success, and success is false.  A map has no such attribute.
CountsError(previous) == previous = "failed_object"

\* progress >= 1.0, for the progress scores "0" (0.0) and "1" (1.0)
ProgressComplete(v) == v = "1"

\* _decide_action: a plan is followed when it is a non-empty list and
\* current_step <= len(plan).
FollowsPlan(c, plan) ==
    /\ plan \in Refs
    /\ heap[plan].type = "list"
    /\ heap[plan].list # << >>
    /\ c.current_step <= Len(heap[plan].list)

\* The plan entry _decide_action takes: plan[current_step - 1], and plan[0]
\* when current_step is 0.  Indices here start at 1.
PlanIndex(c) == IF c.current_step > 0 THEN c.current_step ELSE 1

\* modal_detected of the stored perception result; "modal" names a result
\* whose flag is set.
ModalDetected(perception) == perception = "modal"

\* The band of a progress score: < 0.3, < 0.7, < 1.0, or none of them.
Band(progress) ==
    CASE progress \in {"0", "0.2"} -> "explore"
      [] progress \in {"0.3", "0.4", "0.5", "0.6"} -> "act"
      [] progress \in {"0.7", "0.8"} -> "finalize"
      [] OTHER -> "none"

\* _decide_action: the plan entry when a plan is followed; otherwise the
\* parts for the modal window and for the band, joined with ". ", and
\* "continue" (the fallback text) when there is no part.
DecideAction(c, plan, perception, progress) ==
    IF FollowsPlan(c, plan) THEN "planned"
    ELSE IF ModalDetected(perception)
    THEN CASE Band(progress) = "explore" -> "modal. explore"
           [] Band(progress) = "act" -> "modal. act"
           [] Band(progress) = "finalize" -> "modal. finalize"
           [] OTHER -> "modal"
    ELSE IF Band(progress) = "none" THEN "continue"
    ELSE Band(progress)

\* _plan_next_thought: the completion hint at progress >= 1.0, else the
\* hint to correct course when the reflection tells of a failure (it does
\* for a previous result whose attribute success is false), else the plain
\* hint.
PlanNextThought(progress, previous) ==
    IF ProgressComplete(progress) THEN "done"
    ELSE IF CountsError(previous) THEN "retry"
    ELSE "go"

\* A key's lock object is made when the key has none.
LockMade(lk, k) ==
    IF lk[k] # 0 THEN lk
    ELSE [lk EXCEPT ![k] =
            CHOOSE n \in 1..(Cardinality(AllKeys) + Cardinality(Writers) + 1) :
                /\ \A j \in AllKeys : lk[j] # n
                /\ \A w \in Writers : wr[w].lock # n]

\* A whole call of set(k, v) on the store st = [data, locks, notified], with
\* the heap hp: set never suspends, so its caller sees it as one step.
SetCall(st, hp, k, v) ==
    [data |-> Store(st.data, k, v),
     locks |-> LockMade(st.locks, k),
     notified |-> IF PyNe(hp, Get(st.data, k, "None"), v)
                  THEN [st.notified EXCEPT ![k] = @ + 1]
                  ELSE st.notified]

\* create_thinking_context(task): the context is made with the engine's
\* budgets and an empty list, and the task and the list are set in the store.
CreateThinkingContext(ms, me) ==
    /\ running = "None"
    /\ ctx.origin = "none"
    /\ heap["r1"].type = "free"
    /\ LET hp == [heap EXCEPT !["r1"] = ListObj(0)]
           st0 == [data |-> data, locks |-> locks, notified |-> notified]
           st1 == SetCall(st0, hp, "task_description", "task")
           st2 == SetCall(st1, hp, "thought_chain", "r1")
       IN  /\ heap' = hp
           /\ data' = st2.data
           /\ locks' = st2.locks
           /\ notified' = st2.notified
           /\ lastWrite' = [lastWrite EXCEPT !["task_description"] = "task",
                                             !["thought_chain"] = "r1"]
           /\ lastOp' = [NoOp EXCEPT
                 !.op = "set", !.key = "thought_chain", !.value = "r1",
                 !.old = Get(data, "thought_chain", "None"),
                 !.differs = PyNe(hp, Get(data, "thought_chain", "None"), "r1")]
    /\ ctx' = [NoContext EXCEPT !.origin = "created", !.max_steps = ms,
                                !.max_errors = me, !.list = "r1"]
    /\ UNCHANGED << held, wr, running, memOps >>
    /\ UNCHANGED << thinkCalls, lastThink, lastCheck >>
    /\ UNCHANGED << busVars, waitVars, agentVars >>

\* A caller makes a ThinkingContext of its own, with the fields it likes.
BuildContext(cs, ms, ec, me, done) ==
    /\ ctx.origin = "none"
    /\ ctx' = [NoContext EXCEPT !.origin = "built", !.current_step = cs,
                                !.max_steps = ms, !.error_count = ec,
                                !.max_errors = me, !.completed = done]
    /\ UNCHANGED << thinkCalls, lastThink, lastCheck >>
    /\ UNCHANGED << busVars, memVars, waitVars, agentVars >>

\* should_continue(context): the context is only read.
CheckContinue ==
    /\ ctx.origin # "none"
    /\ lastCheck' = [done |-> TRUE, result |-> ShouldContinue(ctx),
                     reason |-> ContinueReason(ctx),
                     nth |-> 1 - lastCheck.nth]
    /\ UNCHANGED << ctx, thinkCalls, lastThink >>
    /\ UNCHANGED << busVars, memVars, waitVars, agentVars >>

\* think_step(context, perception, previous_result).  The thought comes
\* first: _generate_thought awaits get(TASK_DESCRIPTION) and
\* get(CURRENT_URL), then counts the error of a failed previous result.
\* The action, the reflection and the next thought await get(CURRENT_PLAN)
\* and get(PROGRESS_SCORE); a progress of 1.0 sets completed.  Only then
\* the step is appended, current_step is advanced, and the chain and the
\* action are set in the store.  An await that raises ends the call with
\* what was assigned before it.
ThinkStep(previous) ==
    /\ running = "None"
    /\ ctx.origin # "none"
    /\ thinkCalls < MaxThinkCalls
    /\ thinkCalls' = thinkCalls + 1
    /\ LET task == Get(data, "task_description", "None")
           url == Get(data, "current_url", "None")
           plan == Get(data, "current_plan", "None")
           progress == Get(data, "progress_score", "0")
           step_num == ctx.current_step + 1
           counted == [ctx EXCEPT !.error_count =
                          IF CountsError(previous) THEN @ + 1 ELSE @]
           perception == Get(data, "perception_result", "{}")
           action == DecideAction(ctx, plan, perception, progress)
           entry == IF FollowsPlan(ctx, plan) THEN PlanIndex(ctx) ELSE 0
           stepped == [counted EXCEPT
                          !.completed = @ \/ ProgressComplete(progress),
                          !.chain = Append(@, step_num),
                          !.current_step = step_num]
           hp == IF ctx.list \in Refs
                 THEN [heap EXCEPT ![ctx.list].list = Append(@, "e")]
                 ELSE heap
           failed == IF ReportsFailure(previous) THEN lastThink.failed + 1
                     ELSE lastThink.failed
           st0 == [data |-> data, locks |-> locks, notified |-> notified]
           st1 == SetCall(st0, hp, "thought_chain", ctx.list)
           st2 == SetCall(st1, hp, "next_step", action)
       IN  IF ~Awaitable(task) \/ ~Awaitable(url)
           THEN /\ lastThink' = [outcome |-> "TypeError", failed |-> failed,
                                 previous |-> previous, action |-> "none",
                                 entry |-> 0, next_thought |-> "none"]
                /\ UNCHANGED << ctx, memVars >>
           ELSE IF ~Awaitable(plan) \/ ~Awaitable(perception)
                   \/ ~Awaitable(progress)
           THEN /\ lastThink' = [outcome |-> "TypeError", failed |-> failed,
                                 previous |-> previous, action |-> "none",
                                 entry |-> 0, next_thought |-> "none"]
                /\ ctx' = counted
                /\ UNCHANGED memVars
           ELSE /\ lastThink' = [outcome |-> "returned", failed |-> failed,
                                 previous |-> previous, action |-> action,
                                 entry |-> entry,
                                 next_thought |->
                                     PlanNextThought(progress, previous)]
                /\ ctx' = stepped
                /\ heap' = hp
                /\ data' = st2.data
                /\ locks' = st2.locks
                /\ notified' = st2.notified
                /\ lastWrite' = [lastWrite EXCEPT
                                    !["thought_chain"] = ctx.list,
                                    !["next_step"] = action]
                /\ lastOp' = [NoOp EXCEPT
                      !.op = "set", !.key = "next_step", !.value = action,
                      !.old = Get(data, "next_step", "None"),
                      !.differs = PyNe(hp, Get(data, "next_step", "None"),
                                       action)]
                /\ UNCHANGED << held, wr, running, memOps >>
    /\ UNCHANGED lastCheck
    /\ UNCHANGED << busVars, waitVars, agentVars >>

InitThink ==
    /\ ctx = NoContext
    /\ thinkCalls = 0
    /\ lastThink = NoThink
    /\ lastCheck = NoCheck

\* The engine with a context it has created or a caller has built, on the
\* engine's own store.
NextThink ==
    \/ \E ms \in 1..MaxSteps, me \in 1..MaxErrors : CreateThinkingContext(ms, me)
    \/ \E cs \in 0..MaxSteps, ms \in 0..MaxSteps,
          ec \in 0..MaxErrors, me \in 0..MaxErrors, done \in BOOLEAN :
          BuildContext(cs, ms, ec, me, done)
    \/ CheckContinue
    \/ \E previous \in PreviousResults : ThinkStep(previous)

\* ------------------------------------------------------------------------
\* The reflection agent: progress score and next action
\* (src/agents/reflection_agent.py)
\* ------------------------------------------------------------------------

MaxReflects == 4

\* The coordinator before its task run:
\*   status       : where run_with_agents is ("none": not called)
\*   max_steps    : the step budget given to the coordinator
\*   current_step : _current_step
\*   callbacks    : the steps the external agent has reported so far
\*   published    : the messages the agents have published
\*   hints        : the module's current context hints
\*   final_result : _final_result
\*   fault        : what the last step callback failed at
\*   escaped      : an exception has left a step callback
\*   runs         : calls of run_with_agents so far
NoRun == [status |-> "none", max_steps |-> 0, current_step |-> 0,
          callbacks |-> 0, published |-> 0, hints |-> "None",
          final_result |-> "None", fault |-> "none", escaped |-> FALSE,
          runs |-> 0, trace |-> << >>]

\* Task descriptions, lower-cased, told apart by the keywords they hold:
\* "buy" is a shopping keyword, "find" a search keyword, "open" a
\* navigation keyword; "watch video" holds none, "" is the empty task.
Tasks == {"", "buy shoes", "find shoes", "open shop", "watch video"}
ShoppingTasks == {"buy shoes"}
SearchTasks == {"find shoes"}
NavigationTasks == {"open shop"}

\* Page types: those the perception agent tells apart, and one that holds
\* the word "completed".
PageTypes == {"catalog", "product", "cart", "checkout", "search", "unknown",
              "order_completed"}
CompletedPages == {"order_completed"}

\* A perception result is named by its page_type; "+" marks one whose
\* interactive_elements list is not empty.  "{}" is the default of
\* get(PERCEPTION_RESULT, {}).
WithElements == {"search+"}
Perceptions == PageTypes \cup WithElements

\* perception.get("page_type", "unknown")
PageTypeOf(perception) ==
    CASE perception = "search+" -> "search"
      [] perception = "catalog+" -> "catalog"
      [] perception = "product+" -> "product"
      [] perception = "cart+" -> "cart"
      [] perception = "checkout+" -> "checkout"
      [] perception = "unknown+" -> "unknown"
      [] perception = "{}" -> "unknown"
      [] OTHER -> perception

\* perception.get("interactive_elements")
InteractiveElements(perception) ==
    perception \in WithElements
        \cup {"catalog+", "product+", "cart+", "checkout+", "unknown+"}

\* The current URL: a page of the shop.
Urls == {"/shop"}

\* not task
Falsy(task) == task \in {"None", ""}

\* A plausible slip: the cart scored as the product page.
ShoppingScoreFlat(page_type) ==
    CASE page_type = "catalog" -> 2
      [] page_type = "product" -> 4
      [] page_type = "cart" -> 4
      [] page_type = "checkout" -> 8
      [] page_type \in CompletedPages -> 10
      [] OTHER -> 0

\* Shopping tasks: progress by page type, in tenths.
ShoppingScore(page_type) ==
    CASE page_type = "catalog" -> 2
      [] page_type = "product" -> 4
      [] page_type = "cart" -> 6
      [] page_type = "checkout" -> 8
      [] page_type \in CompletedPages -> 10
      [] OTHER -> 0

\* Search tasks: 0.5 on a page with interactive elements, 0.8 when the
\* action result is an object whose success attribute is true.
SearchScore(perception, action_result) ==
    IF action_result = "ok_object" THEN 8
    ELSE IF InteractiveElements(perception) THEN 5
    ELSE 0

\* Navigation tasks
NavigationScore(page_type) == IF page_type # "unknown" THEN 7 ELSE 3

Min(a, b) == IF a <= b THEN a ELSE b

\* _calculate_progress_score, in tenths: the first keyword family the task
\* holds decides.
CalculateProgressScore(task, perception, action_result) ==
    IF Falsy(task) THEN 0
    ELSE Min(IF task \in ShoppingTasks
                 THEN ShoppingScore(PageTypeOf(perception))
             ELSE IF task \in SearchTasks
                 THEN SearchScore(perception, action_result)
             ELSE IF task \in NavigationTasks
                 THEN NavigationScore(PageTypeOf(perception))
             ELSE 0,
             10)

\* What _calculate_progress_score appends to _progress_history: nothing
\* when the task is empty (it returns before).
Tracked(task, score) == IF Falsy(task) THEN << >> ELSE << score >>

\* _decide_next_action: the suggestion by the band the score is in, "None"
\* once the score has reached 1.0.
DecideNextAction(perception, progress_score) ==
    LET page_type == PageTypeOf(perception)
    IN  IF progress_score < 3
            THEN IF page_type = "unknown" THEN "study the page"
                 ELSE "find the target element"
        ELSE IF progress_score < 7
            THEN CASE page_type = "catalog" -> "find the product"
                   [] page_type = "product" -> "add to cart"
                   [] page_type = "cart" -> "go to checkout"
                   [] OTHER -> "next action"
        ELSE IF progress_score < 10
            THEN IF page_type = "checkout" THEN "fill in the order data"
                 ELSE "finish the task"
        ELSE "None"

\* _evaluate_action_success
ActionSuccessful(action_result) ==
    action_result \notin {"failed_object", "failed_map"}

\* _identify_errors finds some: a failed result (an object with its error,
\* a map without success), or a perception with no page behind it.
\* _identify_errors: "no active page" is reported when there is a perception
\* result and the URL is missing, empty or about:blank.
StaleState(perception, url) ==
    perception # "None" /\ url \in {"None", "", "about:blank"}

HasErrors(action_result, perception, url) ==
    \/ action_result \in {"failed_object", "failed_map"}
    \/ perception # "None" /\ url \in {"None", "", "about:blank"}

\* The progress score as the store holds it.
ScoreValue(score) ==
    CASE score = 0 -> "0"
      [] score = 2 -> "0.2"
      [] score = 3 -> "0.3"
      [] score = 4 -> "0.4"
      [] score = 5 -> "0.5"
      [] score = 6 -> "0.6"
      [] score = 7 -> "0.7"
      [] score = 8 -> "0.8"
      [] OTHER -> "1"

NoReflect == [task |-> "None", perception |-> "{}", url |-> "None",
              action_result |-> "None", previous_score |-> 0,
              progress_score |-> 0, next_action |-> "None",
              action_successful |-> TRUE, progress_made |-> FALSE,
              should_continue |-> TRUE, should_correct |-> FALSE,
              stale |-> FALSE]

\* What reflect_on_action(action_result) returns on the store st, and the
\* history after it: the score is computed twice, for progress_made and for
\* progress_score, and tracked each time.
Reflection(st, history, action_result) ==
    LET task == Get(st.data, "task_description", "None")
        perception == Get(st.data, "perception_result", "{}")
        url == Get(st.data, "current_url", "None")
        previous_score == IF Len(history) > 0 THEN history[Len(history)] ELSE 0
        score == CalculateProgressScore(task, perception, action_result)
        errors == HasErrors(action_result,
                            Get(st.data, "perception_result", "None"), url)
    IN  [data |-> [task |-> task, perception |-> perception, url |-> url,
                   action_result |-> action_result,
                   previous_score |-> previous_score,
                   progress_score |-> score,
                   next_action |-> DecideNextAction(perception, score),
                   action_successful |-> ActionSuccessful(action_result),
                   progress_made |-> score > previous_score,
                   should_continue |-> score < 10,
                   should_correct |->
                       errors /\ ~ActionSuccessful(action_result),
                   stale |->
                       StaleState(Get(st.data, "perception_result", "None"),
                                  url)],
         history |-> history \o Tracked(task, score) \o Tracked(task, score)]

\* reflect_on_action(action_result)
ReflectOnAction(action_result) ==
    /\ running = "None"
    /\ data["current_url"] # "Absent"
    /\ reflects < MaxReflects
    /\ reflects' = reflects + 1
    /\ LET r == Reflection([data |-> data], progress_history, action_result)
       IN  /\ lastReflect' = r.data
           /\ progress_history' = r.history
    /\ UNCHANGED << run, lastProcess, hints >>
    /\ UNCHANGED << busVars, memVars, waitVars, thinkVars >>

\* A caller's set(key, value) of something the reflection reads, as a task
\* run does it: the task first and once, then the URL, then a perception
\* result before each reflection.
Remember(k, v) ==
    /\ running = "None"
    /\ k = "current_url" => data["task_description"] # "Absent"
    /\ k = "perception_result" => data["current_url"] # "Absent"
    /\ notified[k] < (IF k = "perception_result"
                         THEN Min(reflects + 1, MaxReflects) ELSE 1)
    /\ LET st == SetCall([data |-> data, locks |-> locks,
                          notified |-> notified], heap, k, v)
       IN  /\ data' = st.data
           /\ locks' = st.locks
           /\ notified' = st.notified
    /\ lastWrite' = [lastWrite EXCEPT ![k] = v]
    /\ UNCHANGED << held, heap, wr, running, memOps, lastOp >>
    /\ UNCHANGED << busVars, waitVars, thinkVars, agentVars >>

\* ------------------------------------------------------------------------
\* The agents' process: perception, reflection and the context hints
\* (src/agents/perception_agent.py, src/agents/reflection_agent.py)
\* ------------------------------------------------------------------------

\* Calls of process, and changes of the task, in one run of the model.
MaxProcesses == 3
MaxTasks == 3

\* The URLs the browser reports ("": none could be read).
PageUrls == {"", "/catalog", "/product/1", "/cart", "/checkout", "/home"}

\* _detect_page_type: by the URL.  The texts of the elements below hold
\* fewer than two keywords of any page type, so they decide nothing.
DetectPageType(url) ==
    CASE url = "/catalog" -> "catalog"
      [] url = "/product/1" -> "product"
      [] url = "/cart" -> "cart"
      [] url = "/checkout" -> "checkout"
      [] OTHER -> "unknown"

\* The store as a record, for calls of set in a row.
StoreNow == [data |-> data, locks |-> locks, notified |-> notified]

\* ContextHints(): four lists, empty by default.
NoHints == [observations |-> << >>, patterns |-> << >>, warnings |-> << >>,
            suggested_categories |-> {}]

\* The first n items of a list: s[:n]
Prefix(s, n) == SubSeq(s, 1, Min(n, Len(s)))

\* ContextHints.to_prompt_context: what of the hints reaches the prompt.
\* The categories come from list(set(...)), in no order that matters here:
\* their number is what is kept.
ToPromptContext(h) ==
    [observations |-> Prefix(h.observations, 3),
     patterns |-> Prefix(h.patterns, 5),
     warnings |-> Prefix(h.warnings, 2),
     suggested_categories |-> Min(4, Cardinality(h.suggested_categories))]

\* The clickable elements of the pages, by what they are:
\*   "next link"     <a>next</a>
\*   "plus button"   <button>+</button>
\*   "add to cart"   <span>add to cart</span>
\*   "checkout menu" <div>checkout menu</div>
\*   "qty input"     <input class="qty">
ElementNames ==
    {"next link", "plus button", "add to cart", "checkout menu", "qty input"}

\* _categorize_element: by tag and classes first, then by the text.
CategorizeElement(elem) ==
    CASE elem = "plus button" -> "button"
      [] elem = "next link" -> "link"
      [] elem = "qty input" -> "input"
      [] elem = "add to cart" -> "action_button"
      [] elem = "checkout menu" -> "navigation"
      [] OTHER -> "unknown"

\* A browser state as process is given it.  present: the input map holds a
\* browser_state that is not empty; wellformed: it is a map (anything else
\* makes the analysis raise); inputs: the number of its input_elements.
NoBrowserState == [present |-> FALSE, wellformed |-> TRUE, url |-> "",
                   modal |-> FALSE, elements |-> {}, inputs |-> 0]

\* The browser state the step callback builds: the URL, and nothing else.
CallbackState(url) == [NoBrowserState EXCEPT !.present = TRUE, !.url = url]

\* _detect_modal: the flag of the state (none of the elements is a dialog).
DetectModal(bs) == bs.modal

\* _detect_pagination: an element whose text holds "next".
DetectPagination(bs) == "next link" \in bs.elements

\* _detect_quantity_controls: a "+" button, or the class "qty".
DetectQuantityControls(bs) == bs.elements \cap {"plus button", "qty input"} # {}

\* detect_patterns
DetectPatterns(bs) ==
    (IF DetectModal(bs) THEN << "modal_window" >> ELSE << >>)
    \o (IF DetectPagination(bs) THEN << "pagination" >> ELSE << >>)
    \o (IF bs.inputs > 0 THEN << "forms" >> ELSE << >>)
    \o (IF "add to cart" \in bs.elements
            THEN << "shopping_cart_present" >> ELSE << >>)
    \o (IF "checkout menu" \in bs.elements
            THEN << "checkout_flow" >> ELSE << >>)
    \o (IF DetectQuantityControls(bs)
            THEN << "quantity_controls_detected" >> ELSE << >>)

\* _generate_observations
GenerateObservations(bs) ==
    (IF DetectPageType(bs.url) # "unknown" THEN << "page of type" >> ELSE << >>)
    \o (IF DetectModal(bs) THEN << "modal open" >> ELSE << >>)
    \o (IF DetectPagination(bs) THEN << "pagination" >> ELSE << >>)
    \o (IF bs.inputs > 0 THEN << "forms" >> ELSE << >>)
    \o (IF "plus button" \in bs.elements THEN << "buttons" >> ELSE << >>)

\* _generate_context_hints: the observations with the page type put first
\* and the quantity controls last, the patterns, no warning, and the
\* categories of the elements but "unknown".
GenerateContextHints(bs) ==
    [observations |->
        (IF DetectPageType(bs.url) # "unknown"
            THEN << "page type" >> ELSE << >>)
        \o GenerateObservations(bs)
        \o (IF DetectQuantityControls(bs)
               THEN << "quantity controls" >> ELSE << >>),
     patterns |-> DetectPatterns(bs),
     warnings |-> << >>,
     suggested_categories |->
        { CategorizeElement(elem) : elem \in bs.elements } \ {"unknown"}]

\* PerceptionData.to_dict() as the store holds it: named by its page type,
\* with "+" when interactive_elements is not empty.
PerceptionOf(bs) ==
    LET page_type == DetectPageType(bs.url)
    IN  IF bs.elements = {} THEN page_type
        ELSE CASE page_type = "catalog" -> "catalog+"
               [] page_type = "product" -> "product+"
               [] page_type = "cart" -> "cart+"
               [] page_type = "checkout" -> "checkout+"
               [] OTHER -> "unknown+"

\* Where a call of process fails: nowhere, in its analysis, at its first
\* write to the store, at its write of the hints, or at its first publish.
ProcessFaults == {"none", "analysis", "write", "hints", "publish"}

\* A slip: only a failure of the analysis is caught.
CatchesAnalysisOnly(fault) == fault = "analysis"

\* try: ... except Exception as e: return {"success": False, "error": str(e)}
\* around everything process does after it has read its input.
ProcessCatches(fault) == TRUE

\* No call of process yet.  nth: the calls so far; payload: the result
\* carries the perception or the reflection.
NoProcess == [agent |-> "none", fault |-> "none", returned |-> FALSE,
              raised |-> FALSE, success |-> FALSE, error |-> "None",
              payload |-> FALSE, nth |-> 0]

\* How a call of process ends when fault strikes.
ProcessFailure(agent, fault) ==
    [NoProcess EXCEPT !.agent = agent, !.fault = fault,
                      !.returned = ProcessCatches(fault),
                      !.raised = ~ProcessCatches(fault),
                      !.error = IF ProcessCatches(fault) THEN "str(e)"
                                ELSE "None"]

\* {"success": True, "perception" / "reflection": ...}
ProcessSuccess(agent) ==
    [NoProcess EXCEPT !.agent = agent, !.returned = TRUE, !.success = TRUE,
                      !.payload = TRUE]

\* Calls of set in a row, each on the store the one before has left:
\* writes is a list of << key, value >>.
RECURSIVE SetCalls(_, _, _)
SetCalls(st, hp, writes) ==
    IF writes = << >> THEN st
    ELSE CHOOSE after \in
            { SetCalls(next, hp, Tail(writes)) :
                next \in { SetCall(st, hp, Head(writes)[1],
                                   Head(writes)[2]) } } : TRUE

\* The keys that the calls of writes have set.
KeysOf(writes) == { writes[i][1] : i \in DOMAIN writes }

\* PerceptionAgent.process({"browser_state": bs}) on the store st with the
\* hints hs: its result, the store and the hints after it, the keys it has
\* set and the messages it has published.  It sets its result, the URL,
\* the title and the hints, and publishes its result and its patterns.
\* The calls of set_memory and send_message that a process makes, in the
\* order of its statements: a write is << "set", key, value >>, a publish
\* is << "publish", kind, content, key >> with the key whose value the
\* content was taken from.
SetSteps(writes) ==
    [i \in DOMAIN writes |-> << "set", writes[i][1], writes[i][2] >>]

\* A slip: the messages are sent before the store is written.
PublishesFirst(writes, publishes) == publishes \o SetSteps(writes)

\* process writes the store first and sends its messages after that.
ProcessSteps(writes, publishes) == SetSteps(writes) \o publishes

\* What a step leaves of the store, and what it shows: a publish runs the
\* handlers of the kind before it returns, and stored is what a handler
\* finds in the store under the key.
AfterStep(st, hp, step) ==
    IF step[1] = "set" THEN SetCall(st, hp, step[2], step[3]) ELSE st

EventOf(st, step) ==
    [op |-> step[1], key |-> step[2], value |-> step[3],
     stored |-> IF step[1] = "set" THEN step[3]
                ELSE Get(st.data, step[4], "None")]

RECURSIVE Events(_, _, _)
Events(st, hp, steps) ==
    IF steps = << >> THEN << >>
    ELSE CHOOSE t \in
            { << EventOf(st, Head(steps)) >> \o Events(next, hp, Tail(steps)) :
                next \in { AfterStep(st, hp, Head(steps)) } } : TRUE

PerceptionProcess(st, hs, bs, fault) ==
    LET strikes == IF ~bs.present THEN "none"
                   ELSE IF ~bs.wellformed THEN "analysis"
                   ELSE fault
        pages == << << "perception_result", PerceptionOf(bs) >>,
                    << "current_url", bs.url >>,
                    << "page_title", "" >> >>
        writes == IF ~bs.present \/ strikes \in {"analysis", "write"}
                      THEN << >>
                  ELSE IF strikes = "hints" THEN pages
                  ELSE Append(pages, << "context_hints", "hints" >>)
        hinted == bs.present /\ strikes \in {"publish", "none"}
        done == bs.present /\ strikes = "none"
        publishes ==
            IF ~done THEN << >>
            ELSE << << "publish", "perception_page_analyzed",
                       PerceptionOf(bs), "perception_result" >> >>
                 \o (IF DetectPatterns(bs) # << >>
                         THEN << << "publish", "perception_pattern_detected",
                                    "patterns", "perception_result" >> >>
                     ELSE << >>)
    IN  [result |->
            IF ~bs.present
                THEN [NoProcess EXCEPT
                         !.agent = "perception", !.fault = fault,
                         !.returned = TRUE, !.error = "No browser state"]
            ELSE IF done THEN ProcessSuccess("perception")
            ELSE ProcessFailure("perception", strikes),
         store |-> SetCalls(st, heap, writes),
         written |-> KeysOf(writes),
         hints |-> IF hinted THEN GenerateContextHints(bs) ELSE hs,
         trace |-> Events(st, heap, ProcessSteps(writes, publishes)),
         published |-> Len(publishes)]

\* len(errors) of _identify_errors
ErrorCount(action_result, perception, url) ==
    (IF action_result \in {"failed_object", "failed_map"} THEN 1 ELSE 0)
    + (IF perception # "None" /\ url \in {"None", "", "about:blank"}
          THEN 1 ELSE 0)

\* _calculate_confidence, in twentieths: score + (1 - score) * 0.5
Confidence(progress_score) == 2 * progress_score + (10 - progress_score)

\* _generate_warnings(reflection, perception): perception is the one
\* process was given ("None": none).
GenerateWarnings(perception, errors, progress_score) ==
    (IF perception # "None" /\ PageTypeOf(perception) = "checkout"
        THEN << "checkout page" >> ELSE << >>)
    \o (IF errors = 1 THEN << "errors: 1" >>
        ELSE IF errors > 1 THEN << "errors: 2" >> ELSE << >>)
    \o (IF Confidence(progress_score) < 10
           THEN << "low confidence" >> ELSE << >>)

\* for warning in new: if warning not in warnings: warnings.append(warning)
RECURSIVE AppendNew(_, _)
AppendNew(warnings, new) ==
    IF new = << >> THEN warnings
    ELSE AppendNew(IF \E i \in DOMAIN warnings : warnings[i] = Head(new)
                       THEN warnings ELSE Append(warnings, Head(new)),
                   Tail(new))

\* _update_context_hints: the warnings are added to the hints of the store
\* (to new ones when it holds none).
UpdateContextHints(st, hs, perception, errors, progress_score) ==
    LET existing == IF st.data["context_hints"] = "Absent" THEN NoHints
                    ELSE hs
        new == GenerateWarnings(perception, errors, progress_score)
    IN  [existing EXCEPT !.warnings = AppendNew(@, new)]

\* The inputs of ReflectionAgent.process: the action result, and the
\* perception ("None": none, "not a map": something without get).
ReflectionInputs ==
    [action_result : {"None", "failed_map"},
     perception : {"checkout", "not a map"}]

\* What reflect_on_action has returned (r) goes on in process: the result
\* and the score are set, the hints get the warnings and are set, and two
\* or three messages are published.
ReflectionWrites(st, hs, input, r, strikes) ==
    LET errors == ErrorCount(input.action_result,
                             Get(st.data, "perception_result", "None"),
                             Get(st.data, "current_url", "None"))
        score == ScoreValue(r.data.progress_score)
        scores == << << "reflection_result", score >>,
                     << "progress_score", score >> >>
        hinted == strikes \in {"publish", "none"}
        new == IF hinted
                   THEN UpdateContextHints(st, hs, input.perception, errors,
                                           r.data.progress_score)
               ELSE hs
        writes == IF strikes = "write" THEN << >>
                  ELSE IF strikes = "hints" THEN scores
                  ELSE Append(scores,
                              << "context_hints",
                                 IF new.warnings # << >>
                                     THEN "hints and warnings"
                                 ELSE "hints" >>)
        publishes ==
            IF strikes # "none" THEN << >>
            ELSE << << "publish", "reflection_action_evaluated", score,
                       "reflection_result" >>,
                    << "publish", "reflection_progress_updated", score,
                       "progress_score" >> >>
                 \o (IF r.data.next_action # "None"
                         THEN << << "publish", "reflection_decision_made",
                                    r.data.next_action,
                                    "reflection_result" >> >>
                     ELSE << >>)
    IN  [result |-> IF strikes = "none" THEN ProcessSuccess("reflection")
                    ELSE ProcessFailure("reflection", strikes),
         store |-> SetCalls(st, heap, writes),
         written |-> KeysOf(writes),
         hints |-> new,
         trace |-> Events(st, heap, ProcessSteps(writes, publishes)),
         published |-> Len(publishes),
         reflected |-> TRUE,
         reflection |-> r.data,
         history |-> r.history]

\* ReflectionAgent.process({"action_result": ..., "perception": ...}) on the
\* store st with the hints hs and the progress history.  reflected: its
\* reflect_on_action has returned (a failure of the analysis strikes before
\* a score is tracked).
ReflectionProcess(st, hs, history, input, fault) ==
    LET strikes == IF fault \in {"analysis", "write"} THEN fault
                   ELSE IF input.perception = "not a map" THEN "hints"
                   ELSE fault
    IN  IF strikes = "analysis"
            THEN [result |-> ProcessFailure("reflection", strikes),
                  store |-> st, written |-> {}, hints |-> hs,
                  trace |-> << >>, published |-> 0, reflected |-> FALSE,
                  reflection |-> NoReflect, history |-> history]
        ELSE CHOOSE o \in
                { ReflectionWrites(st, hs, input, r, strikes) :
                    r \in { Reflection(st, history, input.action_result) } } :
                TRUE

\* The value of the last set of each key after a call that has written
\* the keys of written.
LastWritten(st, written) ==
    [k \in AllKeys |-> IF k \in written THEN st.data[k] ELSE lastWrite[k]]

\* The browser states process is called with: none, something that is not
\* a map, and a page with elements.
BrowserStates ==
    { NoBrowserState,
      [NoBrowserState EXCEPT !.present = TRUE, !.wellformed = FALSE],
      [CallbackState("/cart") EXCEPT
          !.modal = TRUE, !.inputs = 1, !.elements = ElementNames] }

\* The tasks the agents work on, one after the other.
ProcessTasks == {"", "open shop"}

\* A call of PerceptionAgent.process({"browser_state": bs}).
Perceive(bs, fault) ==
    /\ running = "None"
    /\ lastProcess.nth < MaxProcesses
    /\ \E o \in { PerceptionProcess(StoreNow, hints, bs, fault) } :
           /\ data' = o.store.data
           /\ locks' = o.store.locks
           /\ notified' = o.store.notified
           /\ lastWrite' = LastWritten(o.store, o.written)
           /\ hints' = o.hints
           /\ lastProcess' = [o.result EXCEPT !.nth = lastProcess.nth + 1]
           /\ run' = [run EXCEPT !.published = @ + o.published]
    /\ UNCHANGED << held, heap, wr, running, memOps, lastOp >>
    /\ UNCHANGED << progress_history, reflects, lastReflect >>
    /\ UNCHANGED << busVars, waitVars, thinkVars >>

\* A call of ReflectionAgent.process(input).
Reflect(input, fault) ==
    /\ running = "None"
    /\ lastProcess.nth < MaxProcesses
    /\ \E o \in { ReflectionProcess(StoreNow, hints, progress_history,
                                    input, fault) } :
           /\ data' = o.store.data
           /\ locks' = o.store.locks
           /\ notified' = o.store.notified
           /\ lastWrite' = LastWritten(o.store, o.written)
           /\ hints' = o.hints
           /\ lastProcess' = [o.result EXCEPT !.nth = lastProcess.nth + 1]
           /\ run' = [run EXCEPT !.published = @ + o.published]
           /\ progress_history' = o.history
           /\ reflects' = IF o.reflected THEN reflects + 1 ELSE reflects
           /\ lastReflect' = IF o.reflected THEN o.reflection
                             ELSE lastReflect
    /\ UNCHANGED << held, heap, wr, running, memOps, lastOp >>
    /\ UNCHANGED << busVars, waitVars, thinkVars >>

\* A caller's set(TASK_DESCRIPTION, task), as each task run starts with.
SetTask(task) ==
    /\ running = "None"
    /\ notified["task_description"] < MaxTasks
    /\ LET st == SetCall(StoreNow, heap, "task_description", task)
       IN  /\ data' = st.data
           /\ locks' = st.locks
           /\ notified' = st.notified
    /\ lastWrite' = [lastWrite EXCEPT !["task_description"] = task]
    /\ UNCHANGED << held, heap, wr, running, memOps, lastOp >>
    /\ UNCHANGED << busVars, waitVars, thinkVars, agentVars >>

\* The two agents on one store, called in any order.
NextProcess ==
    \/ \E task \in ProcessTasks : SetTask(task)
    \/ \E bs \in BrowserStates, fault \in ProcessFaults : Perceive(bs, fault)
    \/ \E input \in ReflectionInputs, fault \in ProcessFaults :
          Reflect(input, fault)

\* ------------------------------------------------------------------------
\* The agents before their first call
\* ------------------------------------------------------------------------

InitAgents ==
    /\ progress_history = << >>
    /\ reflects = 0
    /\ lastReflect = NoReflect
    /\ run = NoRun
    /\ lastProcess = NoProcess
    /\ hints = NoHints

\* The reflection agent on a store that callers fill.
NextReflect ==
    \/ \E task \in Tasks : Remember("task_description", task)
    \/ \E url \in Urls : Remember("current_url", url)
    \/ \E perception \in Perceptions : Remember("perception_result", perception)
    \/ \E action_result \in PreviousResults : ReflectOnAction(action_result)

\* ------------------------------------------------------------------------
\* The coordinator's task run (src/agent_system/coordinator.py)
\* ------------------------------------------------------------------------

\* SequentialThinkingEngine's default error budget: the coordinator gives
\* its engine a step budget only.
DefaultMaxErrors == 3

\* How the external agent's run ends: with a final text or without one.
FinalResults == {"None", "text"}

\* Task runs on one coordinator in one run of the model.
MaxRuns == 2

\* run_with_agents(task), up to the start of the external agent: the task,
\* its status and its progress are set, and the thinking context is created
\* (which sets the task again, and a new empty thought chain).  The store,
\* the agents and what they keep are those the coordinator was built with.
RunWithAgents(task, ms) ==
    /\ running = "None"
    /\ run.status \in {"none", "completed", "failed"}
    /\ run.runs < MaxRuns
    /\ LET list == IF heap["r1"].type = "free" THEN "r1" ELSE "r2"
           hp == [heap EXCEPT ![list] = ListObj(0)]
           st1 == SetCall(StoreNow, hp, "task_description", task)
           st2 == SetCall(st1, hp, "task_status", "running")
           st3 == SetCall(st2, hp, "progress_score", "0")
           st4 == SetCall(st3, hp, "task_description", task)
           st5 == SetCall(st4, hp, "thought_chain", list)
       IN  /\ heap[list].type = "free"
           /\ heap' = hp
           /\ data' = st5.data
           /\ locks' = st5.locks
           /\ notified' = st5.notified
           /\ lastWrite' = [lastWrite EXCEPT !["task_description"] = task,
                                             !["task_status"] = "running",
                                             !["progress_score"] = "0",
                                             !["thought_chain"] = list]
           /\ ctx' = [NoContext EXCEPT !.origin = "created",
                                       !.max_steps = ms,
                                       !.max_errors = DefaultMaxErrors,
                                       !.list = list]
    /\ run' = [run EXCEPT !.status = "running", !.max_steps = ms,
                          !.callbacks = 0, !.fault = "none",
                          !.runs = @ + 1]
    /\ UNCHANGED << held, wr, running, memOps, lastOp >>
    /\ UNCHANGED << thinkCalls, lastThink, lastCheck >>
    /\ UNCHANGED << progress_history, reflects, lastReflect, lastProcess,
                    hints >>
    /\ UNCHANGED << busVars, waitVars >>

\* Where a step callback fails: nowhere; in the callback itself (the update
\* of the browser adapter, the lookup of the URL, the write of the URL, the
\* write of the action result); or inside the process of one of the agents.
CallbackFaults == {"adapter", "url", "set url", "set result"}
NoFault == [in |-> "none", what |-> "none"]
Faults ==
    {NoFault}
    \cup { [in |-> "callback", what |-> w] : w \in CallbackFaults }
    \cup { [in |-> a, what |-> w] :
             a \in {"perception", "reflection"},
             w \in ProcessFaults \ {"none"} }

\* The fault as the process of agent meets it.
FaultIn(fault, agent) == IF fault.in = agent THEN fault.what ELSE "none"

\* A slip: the write of the action result outside the try.
CallbackMisses(fault) == ~(fault.in = "callback" /\ fault.what = "set result")

\* try: ... except Exception as e: self._logger.error(...) around all the
\* callback does after it has noted the step.
CallbackCatches(fault) == TRUE

\* hints_dict = get(CONTEXT_HINTS): the module's hints are made of it, and
\* are None when the store holds none.
ModuleHints(st) == Get(st.data, "context_hints", "None")

\* The step callback once the reflection agent's process has ended (r),
\* after the perception agent's (p): when it has succeeded the action
\* result is set, and then the module's hints are made of those of the
\* store.  caught: an exception has reached the callback's except clause.
AfterReflection(fault, p, r) ==
    LET fails == fault.in = "callback" /\ fault.what = "set result"
        writes == IF r.result.success /\ ~fails
                      THEN << << "last_action_result", "ok_map" >> >>
                  ELSE << >>
        caught == r.result.raised \/ (r.result.success /\ fails)
    IN  [store |-> SetCalls(r.store, heap, writes),
         written |-> {"current_url"} \cup p.written \cup r.written
                         \cup KeysOf(writes),
         hints |-> r.hints,
         trace |-> p.trace \o r.trace
                       \o Events(r.store, heap, SetSteps(writes)),
         history |-> r.history,
         reflected |-> r.reflected,
         reflection |-> IF r.reflected THEN r.reflection ELSE lastReflect,
         published |-> p.published + r.published,
         process |-> r.result,
         calls |-> 2,
         module_hints |-> IF caught THEN run.hints
                          ELSE Get(r.store.data, "context_hints", "None"),
         caught |-> caught]

\* The step callback once the perception agent's process has ended (p):
\* when it has succeeded the reflection agent processes the last action
\* result.
AfterPerception(fault, p) ==
    IF ~p.result.success
        THEN [store |-> p.store,
              written |-> {"current_url"} \cup p.written,
              hints |-> p.hints,
              trace |-> p.trace,
              history |-> progress_history,
              reflected |-> FALSE,
              reflection |-> lastReflect,
              published |-> p.published,
              process |-> p.result,
              calls |-> 1,
              module_hints |-> run.hints,
              caught |-> p.result.raised]
    ELSE CHOOSE o \in
            { AfterReflection(fault, p, r) :
                r \in { ReflectionProcess(
                           p.store, p.hints, progress_history,
                           [action_result |->
                               Get(p.store.data, "last_action_result",
                                   "None"),
                            perception |->
                               Get(p.store.data, "perception_result",
                                   "None")],
                           FaultIn(fault, "reflection")) } } : TRUE

\* What _step_callback does to the store, the hints and the agents.  A
\* failure of the adapter's update stays in the adapter; a failure of the
\* URL lookup leaves the URL "".  The URL is set, and the perception agent
\* processes a page with that URL and no elements.
CallbackOutcome(url, fault) ==
    LET in_callback == fault.in = "callback"
        u == IF in_callback /\ fault.what = "url" THEN "" ELSE url
    IN  IF in_callback /\ fault.what = "set url"
            THEN [store |-> StoreNow, written |-> {}, hints |-> hints,
                  trace |-> << >>,
                  history |-> progress_history, reflected |-> FALSE,
                  reflection |-> lastReflect, published |-> 0,
                  process |-> lastProcess, calls |-> 0,
                  module_hints |-> run.hints, caught |-> TRUE]
        ELSE CHOOSE o \in
                { [a EXCEPT !.trace =
                      Events(StoreNow, heap,
                             << << "set", "current_url", u >> >>) \o @] :
                  a \in { AfterPerception(fault, p) :
                    p \in { PerceptionProcess(
                               SetCall(StoreNow, heap, "current_url", u),
                               hints, CallbackState(u),
                               FaultIn(fault, "perception")) } } } : TRUE

\* _step_callback(browser_state, agent_output, step): the external agent
\* reports a step.  The thinking context and the engine are not touched.
\* escaped: an exception has left the callback.
StepCallback(url, fault) ==
    /\ running = "None"
    /\ run.status = "running"
    /\ run.callbacks < run.max_steps
    /\ \E o \in { CallbackOutcome(url, fault) } :
           /\ data' = o.store.data
           /\ locks' = o.store.locks
           /\ notified' = o.store.notified
           /\ lastWrite' = LastWritten(o.store, o.written)
           /\ hints' = o.hints
           /\ lastReflect' = o.reflection
           /\ progress_history' = o.history
           /\ reflects' = IF o.reflected THEN reflects + 1 ELSE reflects
           /\ lastProcess' = [o.process EXCEPT
                                 !.nth = lastProcess.nth + o.calls]
           /\ run' = [run EXCEPT
                 !.current_step = run.callbacks + 1,
                 !.callbacks = @ + 1,
                 !.published = @ + o.published,
                 !.hints = o.module_hints,
                 !.trace = o.trace,
                 !.fault = fault.what,
                 !.escaped = o.caught /\ ~CallbackCatches(fault)]
    /\ UNCHANGED << held, heap, wr, running, memOps, lastOp >>
    /\ UNCHANGED << busVars, waitVars, thinkVars >>

\* The external agent's run returns: the final result is kept (a default
\* text when there is none) and the task's status is set to completed.
AgentReturns(result) ==
    /\ running = "None"
    /\ run.status = "running"
    /\ LET st == SetCall(StoreNow, heap, "task_status", "completed")
       IN  /\ data' = st.data
           /\ locks' = st.locks
           /\ notified' = st.notified
    /\ lastWrite' = [lastWrite EXCEPT !["task_status"] = "completed"]
    /\ run' = [run EXCEPT !.status = "completed",
                          !.final_result = IF result = "text" THEN "text"
                                           ELSE "task done"]
    /\ UNCHANGED << held, heap, wr, running, memOps, lastOp >>
    /\ UNCHANGED << progress_history, reflects, lastReflect, lastProcess,
                    hints >>
    /\ UNCHANGED << busVars, waitVars, thinkVars >>

\* The external agent's run raises: the status is set to failed and the
\* exception goes on to the caller.
AgentRaises ==
    /\ running = "None"
    /\ run.status = "running"
    /\ LET st == SetCall(StoreNow, heap, "task_status", "failed")
       IN  /\ data' = st.data
           /\ locks' = st.locks
           /\ notified' = st.notified
    /\ lastWrite' = [lastWrite EXCEPT !["task_status"] = "failed"]
    /\ run' = [run EXCEPT !.status = "failed"]
    /\ UNCHANGED << held, heap, wr, running, memOps, lastOp >>
    /\ UNCHANGED << progress_history, reflects, lastReflect, lastProcess,
                    hints >>
    /\ UNCHANGED << busVars, waitVars, thinkVars >>

\* The values the task status is said to take.
TaskStatuses == {"pending", "running", "completed", "failed"}

\* MultiAgentCoordinator.get_stats(): the step, the progress and the task
\* status as the store holds them (max_steps is the constructor's).
GetStats ==
    [steps |-> run.current_step,
     progress |-> Get(data, "progress_score", "0"),
     task_status |-> Get(data, "task_status", "unknown")]

\* SharedMemory.get_context_summary(); no one sets LAST_ACTION.
GetContextSummary ==
    [url |-> Get(data, "current_url", "None"),
     page_title |-> Get(data, "page_title", "None"),
     page_type |-> IF data["perception_result"] = "Absent" THEN "None"
                   ELSE PageTypeOf(data["perception_result"]),
     progress |-> Get(data, "progress_score", "0"),
     last_action |-> "None",
     task_status |-> Get(data, "task_status", "pending")]

\* The tasks, the step budgets and the pages of the task runs.
RunTasks == {"buy shoes", "open shop"}
RunSteps == 1..2
RunUrls == {"", "/catalog", "/checkout"}

\* Task runs, one after the other: the external agent reports at most
\* max_steps steps, and returns or raises when it likes.
NextRun ==
    \/ \E task \in RunTasks, ms \in RunSteps : RunWithAgents(task, ms)
    \/ \E url \in RunUrls : StepCallback(url, NoFault)
    \/ \E result \in FinalResults : AgentReturns(result)
    \/ AgentRaises

\* Task runs with failures inside their step callbacks.
NextFaults ==
    \/ \E ms \in RunSteps : RunWithAgents("buy shoes", ms)
    \/ \E fault \in Faults : StepCallback("/checkout", fault)
    \/ AgentReturns("text")
    \/ AgentRaises

\* ------------------------------------------------------------------------
\* Specifications
\* ------------------------------------------------------------------------

\* ------------------------------------------------------------------------
\* The two agents on the bus: their subscriptions and their handlers
\* (agent_base.py, perception_agent.py, reflection_agent.py)
\* ------------------------------------------------------------------------

\* The kinds the agents subscribe to or publish from their handlers.
AgentKinds ==
    UsedKinds \cup {"perception_page_analyzed", "reflection_error_analyzed"}

AgentNames == {"PerceptionAgent", "ReflectionAgent"}

\* The bound methods the agents subscribe.
AgentHandlers ==
    {"PerceptionAgent._on_action_completed",
     "ReflectionAgent._on_action_completed",
     "ReflectionAgent._on_action_failed",
     "ReflectionAgent._on_page_analyzed"}

\* _subscribe_to_messages of the agent: its calls of subscribe, in order.
SubscribeToMessages(agent) ==
    IF agent = "PerceptionAgent"
        THEN << << "action_completed",
                   "PerceptionAgent._on_action_completed" >> >>
    ELSE << << "action_completed", "ReflectionAgent._on_action_completed" >>,
            << "action_failed", "ReflectionAgent._on_action_failed" >>,
            << "perception_page_analyzed",
               "ReflectionAgent._on_page_analyzed" >> >>

\* The constructor: AgentBase.__init__ calls self._subscribe_to_messages(),
\* which is the agent's own, and the agent's __init__ calls it once more
\* after that.
ConstructorSubscribes(agent) ==
    SubscribeToMessages(agent) \o SubscribeToMessages(agent)

\* subscribe for each of the (kind, handler) pairs: an append to the list of
\* the kind.
RECURSIVE SubscribeEach(_, _)
SubscribeEach(subs, regs) ==
    IF regs = << >> THEN subs
    ELSE CHOOSE after \in
            { SubscribeEach(next, Tail(regs)) :
                next \in { [subs EXCEPT ![Head(regs)[1]] =
                              Append(@, Head(regs)[2])] } } : TRUE

\* The agent is made on the bus and the store.  subscribe is called without
\* an agent_name, and the closures it returns are thrown away.
Construct(agent) ==
    /\ \A i \in DOMAIN SubscribeToMessages(agent) :
          Count(subscribers[SubscribeToMessages(agent)[i][1]],
                SubscribeToMessages(agent)[i][2]) = 0
    /\ subscribers' = SubscribeEach(subscribers, ConstructorSubscribes(agent))
    /\ UNCHANGED << agent_subscribers, caps, ops, message_history, pubs,
                    queue, received, pending_requests, requests, busLogs >>
    /\ UNCHANGED outsideBus

\* What a handler leaves when it does nothing (_on_page_analyzed: pass).
HandlerIdle ==
    [store |-> StoreNow, heap |-> heap, written |-> {},
     history |-> progress_history, reflected |-> FALSE,
     reflection |-> lastReflect, calls |-> 0, process |-> lastProcess,
     sends |-> << >>]

\* analyze_error(error_info): the error history is read (a new list when the
\* key is absent), appended to in place and set, and the analysis is sent.
AnalyzeError ==
    LET known == data["error_history"] \in Refs
        ref == IF known THEN data["error_history"] ELSE "r1"
        hp == IF known THEN [heap EXCEPT ![ref].list = Append(@, "e")]
              ELSE [heap EXCEPT ![ref] = ListObj(1)]
    IN  [HandlerIdle EXCEPT
            !.store = SetCall(StoreNow, hp, "error_history", ref),
            !.heap = hp,
            !.written = {"error_history"},
            !.sends = << "reflection_error_analyzed" >>]

\* _on_action_completed of the reflection agent: reflect_on_action(content).
OnActionCompletedReflect ==
    CHOOSE o \in
        { [HandlerIdle EXCEPT !.history = r.history, !.reflected = TRUE,
                              !.reflection = r.data] :
            r \in { Reflection([data |-> data], progress_history,
                               "ok_map") } } : TRUE

\* _on_action_completed of the perception agent:
\* process({"trigger": "action_completed"}), an input without browser_state.
OnActionCompletedPerceive ==
    CHOOSE o \in
        { [HandlerIdle EXCEPT !.calls = 1, !.process = p.result] :
            p \in { PerceptionProcess(StoreNow, hints, NoBrowserState,
                                      "none") } } : TRUE

HandlerOutcome(h) ==
    CASE h = "ReflectionAgent._on_action_failed" -> AnalyzeError
      [] h = "ReflectionAgent._on_action_completed" -> OnActionCompletedReflect
      [] h = "PerceptionAgent._on_action_completed" -> OnActionCompletedPerceive
      [] OTHER -> HandlerIdle

\* The event loop runs the delivery task of an agent's handler: the handler
\* is a coroutine that never waits for another task, so it runs to its end,
\* the publish it makes from send_message included.
DeliverToAgent ==
    /\ running = "None"
    /\ queue # << >>
    /\ Head(queue).type = "deliver"
    /\ Head(queue).h \in AgentHandlers
    /\ data["error_history"] \notin Refs => heap["r1"].type = "free"
    /\ \E t \in { Head(queue) } : \E o \in { HandlerOutcome(t.h) } :
          /\ received' = [received EXCEPT ![t.h] = Append(@, t.pub)]
          /\ data' = o.store.data
          /\ locks' = o.store.locks
          /\ notified' = o.store.notified
          /\ heap' = o.heap
          /\ lastWrite' = LastWritten(o.store, o.written)
          /\ progress_history' = o.history
          /\ reflects' = IF o.reflected THEN reflects + 1 ELSE reflects
          /\ lastReflect' = o.reflection
          /\ lastProcess' = [o.process EXCEPT
                                !.nth = lastProcess.nth + o.calls]
          /\ IF o.sends = << >>
             THEN /\ \E fin \in { FinishOne(pubs, Tail(queue), t.pub, FALSE) } :
                         pubs' = fin[1] /\ queue' = fin[2]
                  /\ UNCHANGED << ops, message_history >>
             ELSE \E m2 \in { NewMessage("agentB", o.sends[1], "None") } :
                  \E rec \in { PubRecord(m2, subscribers[m2.kind],
                                  DeliveryTargets(subscribers[m2.kind], m2),
                                  t.pub) } :
                     /\ ops' = ops + 1
                     /\ message_history' = HistoryAfter(message_history, m2)
                     /\ IF rec.left = 0
                        THEN \E fin \in { FinishOne(Append(pubs, rec),
                                                    Tail(queue), t.pub,
                                                    FALSE) } :
                                pubs' = fin[1] /\ queue' = fin[2]
                        ELSE /\ pubs' = Append(pubs, rec)
                             /\ queue' = Schedule(Tail(queue),
                                            TasksFor(rec.snapshot, m2))
    /\ UNCHANGED << subscribers, agent_subscribers, caps,
                    pending_requests, requests, busLogs >>
    /\ UNCHANGED << held, wr, running, memOps, lastOp >>
    /\ UNCHANGED << run, hints >>
    /\ UNCHANGED << waitVars, thinkVars >>

\* A bus for the agents' kinds.
InitAgentBus ==
    /\ subscribers = [k \in AgentKinds |-> << >>]
    /\ agent_subscribers = [a \in Agents |-> << >>]
    /\ caps = {}
    /\ ops = 0
    /\ message_history = << >>
    /\ pubs = << >>
    /\ queue = << >>
    /\ received = [h \in Handlers \cup AgentHandlers |-> << >>]
    /\ pending_requests = {}
    /\ requests = << >>
    /\ invoked = {}
    /\ lastUnsub = NoUnsub
    /\ lastQuery = NoQuery

\* The agents are made, and ACTION_COMPLETED and ACTION_FAILED messages are
\* published to them.
NextAgents ==
    \/ \E agent \in AgentNames : Construct(agent)
    \/ \E k \in UsedKinds : Publish("agentA", k, "None")
    \/ DeliverToAgent
    \/ Resume

\* ------------------------------------------------------------------------
\* The thinking engine beside the writers of what it reads
\* ------------------------------------------------------------------------

\* The changes of the store that the engine's inputs make in all.
MaxInputs == 2

\* The scores the reflection agent stores, one of each band and 1.0.
EngineScores == {"0", "0.3", "0.7", "1"}

\* The perception results: one without and one with the modal flag.
EnginePerceptions == {"catalog", "modal"}

\* The previous results: none, and an object whose success is false.
EnginePrevious == {"None", "failed_object"}

\* set(key, value) by the agent that owns the key: the reflection agent's
\* progress score, the perception agent's result.
SetInput(k, v) ==
    /\ running = "None"
    /\ notified["progress_score"] + notified["perception_result"] < MaxInputs
    /\ \E st \in { SetCall(StoreNow, heap, k, v) } :
          /\ data' = st.data
          /\ locks' = st.locks
          /\ notified' = st.notified
    /\ lastWrite' = [lastWrite EXCEPT ![k] = v]
    /\ UNCHANGED << held, heap, wr, running, memOps, lastOp >>
    /\ UNCHANGED << busVars, waitVars, thinkVars, agentVars >>

\* set(CURRENT_PLAN, plan) with a list of n actions.
SetPlan(n) ==
    /\ running = "None"
    /\ heap["r2"].type = "free"
    /\ \E hp \in { [heap EXCEPT !["r2"] = ListObj(n)] } :
       \E st \in { SetCall(StoreNow, hp, "current_plan", "r2") } :
          /\ heap' = hp
          /\ data' = st.data
          /\ locks' = st.locks
          /\ notified' = st.notified
    /\ lastWrite' = [lastWrite EXCEPT !["current_plan"] = "r2"]
    /\ UNCHANGED << held, wr, running, memOps, lastOp >>
    /\ UNCHANGED << busVars, waitVars, thinkVars, agentVars >>

\* The engine with a context created by it, or built at the start or at the
\* end of its budgets, while the score, the perception result and the plan
\* are written to its store.
NextEngine ==
    \/ CreateThinkingContext(MaxSteps, MaxErrors)
    \/ \E cs \in {0, MaxSteps}, ec \in {0, MaxErrors}, done \in BOOLEAN :
          BuildContext(cs, MaxSteps, ec, MaxErrors, done)
    \/ CheckContinue
    \/ \E previous \in EnginePrevious : ThinkStep(previous)
    \/ \E score \in EngineScores : SetInput("progress_score", score)
    \/ \E perception \in EnginePerceptions :
          SetInput("perception_result", perception)
    \/ SetPlan(MaxSteps - 1)

vars == << busVars, memVars, waitVars, thinkVars, agentVars >>

Init == InitBus /\ InitMem /\ InitWait /\ InitThink /\ InitAgents

\* A task run of the coordinator.
SpecRun == Init /\ [][NextRun]_vars

\* The reflection agent's scores and suggestions.
SpecReflect == Init /\ [][NextReflect]_vars

\* Task runs with failures inside their step callbacks.
SpecFaults == Init /\ [][NextFaults]_vars

\* The two agents' process, with failures inside.
SpecProcess == Init /\ [][NextProcess]_vars

\* The history of a bus that is about to evict.
InitHistory ==
    InitBusWith(EarlierMessages) /\ InitMem /\ InitWait /\ InitThink
        /\ InitAgents

SpecHistory == InitHistory /\ [][NextHistory]_vars

\* The history of the bus and its queries.
SpecQuery == Init /\ [][NextQuery]_vars

\* The event bus under subscribe, unsubscribe, publish and its deliveries.
SpecBus == Init /\ [][NextBus]_vars

\* MessageBus.request for every kind, with ordinary traffic beside it.
SpecRequest == Init /\ [][NextRequest]_vars

\* The store under set, update, delete, clear and its callers' own changes
\* of the objects they share with it.
SpecMem == Init /\ [][NextMem]_vars

\* wait_for on the clock, beside the writes it waits for.
SpecWait == Init /\ [][NextWait]_vars

\* wait_for beside set, update and delete.
SpecWaitWrite == Init /\ [][NextWaitWrite]_vars

\* The thinking engine: contexts, should_continue and think_step.
SpecThink == Init /\ [][NextThink]_vars

\* The thinking engine while its store is written.
SpecEngine == Init /\ [][NextEngine]_vars

\* The perception and the reflection agent on one bus and one store.
InitOnBus ==
    InitAgentBus /\ InitMem /\ InitWait /\ InitThink /\ InitAgents

SpecAgents == InitOnBus /\ [][NextAgents]_vars


\* ------------------------------------------------------------------------
\* Properties of the bus (SpecBus)
\* ------------------------------------------------------------------------

\* Position of a message in the history (nothing is evicted below max_history).
HistPos(id) ==
    CHOOSE i \in DOMAIN message_history : message_history[i].id = id

HasFailing(snap) == \E i \in DOMAIN snap : Behaviour(snap[i]) = "raise"

(* C1  Fan-out isolation: when a kind has a handler that raises on every    *)
(* delivery, publish never ends with a failure, and once it has returned,   *)
(* every handler that was subscribed to the kind when publish was called    *)
(* has been called with the message; publish is not left waiting once all   *)
(* deliveries have finished.                                                *)
C1_FanOutIsolation ==
    \A p \in DOMAIN pubs :
        HasFailing(pubs[p].snapshot) =>
            /\ pubs[p].state \in {"awaiting", "returned"}
            /\ pubs[p].state = "returned" =>
                  \A h \in Range(pubs[p].snapshot) : Count(received[h], p) >= 1
            /\ pubs[p].state = "awaiting" =>
                  \/ pubs[p].left > 0
                  \/ \E i \in DOMAIN queue :
                        queue[i].type = "resume" /\ queue[i].pub = p

\* Two publishes have returned to a kind with the failing and the working
\* handler subscribed, and both handlers were called with both messages.
C1_Witness ==
    \E p, q \in DOMAIN pubs :
        /\ p # q
        /\ \A x \in {p, q} :
              /\ pubs[x].state = "returned"
              /\ {"failing", "working"} \subseteq Range(pubs[x].snapshot)
              /\ Count(received["failing"], x) >= 1
              /\ Count(received["working"], x) >= 1

(* C5 as stated: publish calls every handler subscribed to the kind exactly *)
(* once, and no other handler, whatever the recipient.                      *)
C5_EachHandlerOnce ==
    \A p \in DOMAIN pubs :
        pubs[p].state = "returned" =>
            \A h \in Handlers :
                Count(received[h], p) =
                    IF h \in Range(pubs[p].snapshot) THEN 1 ELSE 0

(* C5 as amended: publish calls a handler once for each registration it     *)
(* holds under the message's kind when publish is called (a handler         *)
(* subscribed twice is called twice), whether the recipient is absent or    *)
(* names an agent; a handler with no registration under that kind is not    *)
(* called.                                                                  *)
C5_OncePerRegistration ==
    \A p \in DOMAIN pubs : \A h \in Handlers :
        /\ Count(received[h], p) <= Count(pubs[p].snapshot, h)
        /\ pubs[p].state = "returned" =>
              Count(received[h], p) = Count(pubs[p].snapshot, h)

\* A message addressed to agentB has been delivered to the handler of agentA
\* subscribed to its kind, and not to the handler (of agentB) that is
\* subscribed to another kind only.
C5_Witness ==
    \E p \in DOMAIN pubs :
        /\ pubs[p].state = "returned"
        /\ pubs[p].msg.recipient = "agentB"
        /\ Count(pubs[p].snapshot, "failing") = 1
        /\ Count(received["failing"], p) = 1
        /\ Count(pubs[p].snapshot, "working") = 0
        /\ Count(subscribers["action_completed"], "working") = 1
        /\ Count(received["working"], p) = 0

(* C6  Per-subscriber publish order: each handler is called with the        *)
(* messages of a kind in the order in which they were appended to the       *)
(* history, also when publishes overlap and when a handler publishes from   *)
(* inside its delivery.                                                     *)
C6_PublishOrder ==
    \A h \in Handlers : \A i, j \in DOMAIN received[h] :
        ( /\ i < j
          /\ pubs[received[h][i]].msg.kind = pubs[received[h][j]].msg.kind )
        => HistPos(received[h][i]) <= HistPos(received[h][j])

\* A handler has been called with two messages of one kind, the second one
\* published by a handler from inside its delivery, while the publish of the
\* first was still waiting for its deliveries.
C6_Witness ==
    \E h \in Handlers : \E i, j \in DOMAIN received[h] :
        /\ i < j
        /\ received[h][i] # received[h][j]
        /\ pubs[received[h][i]].msg.kind = pubs[received[h][j]].msg.kind
        /\ pubs[received[h][j]].parent # 0
        /\ pubs[received[h][i]].state = "awaiting"

\* ------------------------------------------------------------------------
\* Properties of the request/response layer (SpecRequest)
\* ------------------------------------------------------------------------

\* The messages published so far that answer request id: a message of the
\* request's response kind whose metadata carries the request's id.
CorrelatedResponses(id) ==
    { i \in DOMAIN message_history :
        /\ message_history[i].req = id
        /\ message_history[i].kind = ResponseValue(requests[id].kind) }

(* C2  Request timeout: a call of request during which no responder         *)
(* publishes a correlated response ends by returning none; it does not      *)
(* raise.                                                                   *)
C2_TimeoutReturnsNone ==
    \A id \in DOMAIN requests :
        ( requests[id].outcome # "waiting" /\ CorrelatedResponses(id) = {} )
        => requests[id].outcome = "none"

(* C3  Request cleanup: once a call of request has ended, on whatever path, *)
(* the pending-request table holds no entry for its correlation id.         *)
C3_PendingCleared ==
    \A id \in DOMAIN requests :
        requests[id].outcome # "waiting" => id \notin pending_requests

(* C4  Request/response matching: a call of request listens on its response *)
(* kind for its own correlation id until it ends; it ends by returning a    *)
(* message only if that message is a correlated response, and otherwise by  *)
(* the timeout; a correlated response published while it waits is what it   *)
(* returns.                                                                 *)
C4_ResponseMatched ==
    \A id \in DOMAIN requests :
        /\ requests[id].listening
        /\ requests[id].outcome \in {"waiting", "returned", "none"}
        /\ requests[id].outcome = "returned" =>
              requests[id].result \in CorrelatedResponses(id)
        /\ requests[id].outcome = "none" => CorrelatedResponses(id) = {}

\* C39: once a call of request has ended without a correlated response,
\* the bus holds nothing for it: no pending-request entry and no handler
\* registration, so that a call of request leaves the handlers subscribed
\* to every kind as many as they were.
C39_NoAbandonedWaiters ==
    /\ [](\A id \in DOMAIN requests :
             ( requests[id].outcome # "waiting"
               /\ CorrelatedResponses(id) = {} )
             => /\ id \notin pending_requests
                /\ ~requests[id].listening)
    /\ [][Len(requests') # Len(requests) =>
             \A k \in DOMAIN subscribers :
                 Len(subscribers'[k]) = Len(subscribers[k])]_vars

\* ------------------------------------------------------------------------
\* Properties of the store (SpecMem)
\* ------------------------------------------------------------------------

\* The step in which task w runs the body of its set / update.
BodyStep(w, op) ==
    /\ wr[w].pc = "cs"
    /\ wr[w].op = op
    /\ wr'[w].pc = "release"

\* The tasks inside the critical section of key k.
InCriticalSection(k) ==
    { w \in Writers : wr[w].pc \in {"cs", "release"} /\ wr[w].key = k }

(* C7  Last write wins: as long as no update, delete or clear of a key has  *)
(* followed the last set of the key, get returns the value of that set; and *)
(* the step that stores the value of a set on one key leaves the value of   *)
(* every other key as it was.                                               *)
C7_LastWriteWins ==
    /\ [](\A k \in Keys :
            lastWrite[k] # "NotSet" => Get(data, k, "None") = lastWrite[k])
    /\ [][\A w \in Writers :
            BodyStep(w, "set") =>
                /\ Get(data', wr[w].key, "None") = wr[w].value
                /\ \A k \in Keys \ {wr[w].key} : data'[k] = data[k]]_vars

\* A second set on a key has replaced the different value of a first one,
\* while another key holds a value of its own.
C7_Witness ==
    /\ lastOp.op = "set"
    /\ lastOp.old # "None"
    /\ lastOp.old # lastOp.value
    /\ lastWrite[lastOp.key] = lastOp.value
    /\ \E k \in Keys \ {lastOp.key} : data[k] \notin {"Absent", lastOp.value}
    /\ \A w \in Writers : wr[w].pc = "idle"

(* C8  Change notification: the body of a set on key k notifies the         *)
(* subscribers of k once when the new value is not equal to the value the   *)
(* key held just before, and not at all when it is equal, which includes    *)
(* the set of a list that the key already holds and that its caller has     *)
(* changed in the meantime; no other step of a set notifies.                *)
C8_NotifyOnChange ==
    [][\A w \in Writers :
          /\ BodyStep(w, "set") =>
                LET k == wr[w].key
                    before == Content(heap, Get(data, k, "None"))
                    after == Content(heap, wr[w].value)
                IN  notified' =
                        [notified EXCEPT
                            ![k] = IF before # after THEN @ + 1 ELSE @]
          /\ ( wr[w].op = "set" /\ wr'[w] # wr[w] /\ ~BodyStep(w, "set") )
                => notified' = notified
          /\ ( wr'[w].op = "set" /\ wr[w].op # "set" ) => notified' = notified
      ]_vars

\* A caller has changed the list a key holds and set it again, and the key
\* has been notified once only: for the first set.
C8_Witness ==
    /\ lastOp.op = "set"
    /\ lastOp.afterMut
    /\ lastOp.value \in Refs
    /\ heap[lastOp.value].list # << >>
    /\ notified[lastOp.key] = 1

(* C9  Per-key write serialization: for each key at most one set or update  *)
(* is inside its critical section, also for a key whose lock object delete  *)
(* or clear has dropped; and whoever can read the key then finds the value  *)
(* from before the write or the value after it.                             *)
C9_WriteSerialized ==
    \A k \in Keys :
        /\ Cardinality(InCriticalSection(k)) <= 1
        /\ \A w \in InCriticalSection(k) :
              LET seen == Content(heap, Get(data, k, "None"))
              IN  /\ wr[w].pc = "cs" => seen = wr[w].pre
                  /\ wr[w].pc = "release" => seen \in {wr[w].pre, wr[w].post}
                  /\ wr[w].lock \in held

\* A writer is inside the critical section of a key whose previous lock
\* object, used by an earlier writer, delete has just dropped.
C9_Witness ==
    \E w \in Writers :
        /\ wr[w].pc = "cs"
        /\ lastOp.op = "delete"
        /\ lastOp.key = wr[w].key
        /\ lastOp.lock # 0
        /\ lastOp.old # "None"
        /\ locks[wr[w].key] = wr[w].lock
        /\ wr[w].lock \in held

\* ------------------------------------------------------------------------
\* Properties of wait_for (SpecWait)
\* ------------------------------------------------------------------------

(* C10  wait_for outcome: a call of wait_for that has ended has returned a  *)
(* value that is not null and satisfies the predicate if a write of such a  *)
(* value to its key occurred before the timeout had elapsed, and has raised *)
(* Timeout otherwise: wherever the write fell between the polls, and        *)
(* whether or not the value was still held at the next poll.                *)
C10_WaitOutcome ==
    /\ wt.pc = "returned" =>
          /\ wrote
          /\ wt.result # "None"
          /\ Satisfies(wt.pred, wt.result)
    /\ wt.pc = "timeout" => ~wrote

(* C11  wait_for never holds a lock: while a call of wait_for on a key is   *)
(* pending, a set or update of the key finds the key's lock free, and once  *)
(* begun it can take each of its steps to the end; the steps of wait_for,   *)
(* the one that raises Timeout among them, leave the store's data and locks *)
(* as they were.                                                            *)
C11_WaitHoldsNoLock ==
    /\ [](wt.pc = "sleeping" =>
            /\ running = "None" =>
                  \A k \in WaitKeys : GetLock(k) \notin held
            /\ ( running = "None" /\ memOps < MaxMemOps ) =>
                  ENABLED SetBegin("w1", wt.key, "1")
            /\ wr["w1"].pc = "cs" =>
                  ENABLED (SetBody("w1") \/ UpdateBody("w1"))
            /\ wr["w1"].pc = "release" => ENABLED Release("w1"))
    /\ [][wt' # wt =>
            /\ data' = data
            /\ locks' = locks
            /\ held' = held]_vars

\* A call of wait_for has timed out; while it slept a writer stored a value
\* under its key, through the key's lock, and has released the lock.
C11_Witness ==
    /\ wt.pc = "timeout"
    /\ wrote
    /\ locks[wt.key] # 0
    /\ locks[wt.key] \notin held
    /\ wr["w1"].pc = "idle"

(* C12  update merge semantics: the body of update(k, m) ends without an    *)
(* exception, and afterwards get(k) is the previous map overlaid with m     *)
(* when k held a map, and is m when k held something else or nothing.       *)
C12_UpdateMerges ==
    [][\A w \in Writers :
          BodyStep(w, "update") =>
              LET k == wr[w].key
                  m == heap[wr[w].value].map
                  cur == data[k]
                  after == Content(heap', Get(data', k, "None"))
              IN  /\ ~lastOp'.raised
                  /\ after = IF cur \in Refs /\ heap[cur].type = "map"
                             THEN MapObj(Overlay(heap[cur].map, m))
                             ELSE MapObj(m)
      ]_vars

\* ------------------------------------------------------------------------
\* Properties of the thinking engine (SpecThink)
\* ------------------------------------------------------------------------

(* C13  should_continue exactness: a call of should_continue returns false  *)
(* if and only if current_step >= max_steps, or error_count >= max_errors,  *)
(* or completed is true, and it leaves the context as it was.               *)
C13_ShouldContinueExact ==
    [][lastCheck' # lastCheck =>
          /\ lastCheck'.result =
                ~( \/ ctx.current_step >= ctx.max_steps
                   \/ ctx.error_count >= ctx.max_errors
                   \/ ctx.completed )
          /\ ctx' = ctx]_vars

\* should_continue has returned false for a context that was within its
\* step budget and not completed, and that had used up its error budget.
C13_Witness ==
    /\ lastCheck.done
    /\ ~lastCheck.result
    /\ thinkCalls = 0
    /\ ctx.current_step < ctx.max_steps
    /\ ~ctx.completed
    /\ ctx.error_count >= ctx.max_errors

(* C14  Step numbering: after n calls of think_step on the context that the *)
(* engine has created on its own store, the thought chain of the context    *)
(* holds the steps numbered 1, 2, ..., n in this order.                     *)
C14_StepNumbering ==
    ctx.origin = "created" => ctx.chain = [i \in 1..thinkCalls |-> i]

(* C15  Step budget exhaustion: for a created context with max_steps = N    *)
(* that is not completed and has no error counted, should_continue is true  *)
(* as long as fewer than N calls of think_step were made, and false once N  *)
(* calls were made.                                                         *)
C15_StepBudget ==
    ( ctx.origin = "created" /\ ~ctx.completed /\ ctx.error_count = 0 )
        => ( ShouldContinue(ctx) <=> thinkCalls < ctx.max_steps )

(* C16  Error budget exhaustion: a call of think_step with a previous       *)
(* result that reports failure, as an object or as a map, adds exactly 1 to *)
(* error_count, and any other call leaves error_count as it was; once       *)
(* max_errors such calls were made on a created context, should_continue is *)
(* false.                                                                   *)
C16_ErrorBudget ==
    /\ [][thinkCalls' # thinkCalls =>
            ctx'.error_count =
                ctx.error_count +
                    IF ReportsFailure(lastThink'.previous) THEN 1 ELSE 0]_vars
    /\ []( ( ctx.origin = "created" /\ lastThink.failed >= ctx.max_errors )
              => ~ShouldContinue(ctx) )

(* C17  Termination of the decision procedure: once max_steps calls of      *)
(* think_step were made on a context, should_continue is false, whatever    *)
(* the previous results and the store were.                                 *)
C17_Terminates ==
    ( ctx.origin # "none" /\ thinkCalls >= ctx.max_steps )
        => ~ShouldContinue(ctx)

\* C31: every call of think_step returns, appends exactly one step to the
\* log of the context and adds exactly 1 to current_step; after it the
\* thought chain in the store is the log of the context and the stored next
\* step is the action of the appended step; and the log of a created
\* context is always as long as current_step says.
C31_ThinkStepEffect ==
    /\ [][thinkCalls' # thinkCalls =>
            /\ lastThink'.outcome = "returned"
            /\ ctx'.chain = Append(ctx.chain, ctx.current_step + 1)
            /\ ctx'.current_step = ctx.current_step + 1
            /\ ctx.origin = "created" => data'["thought_chain"] = ctx'.list
            /\ data'["next_step"] = lastThink'.action]_vars
    /\ [](ctx.origin = "created" => Len(ctx.chain) = ctx.current_step)

\* C32: once should_continue has returned false for the context, it returns
\* false whenever it is called again, whatever calls of think_step and
\* writes to the store come in between: current_step and error_count never
\* decrease and completed is never reset, also when the stored score is
\* below 1.0 again.
C32_TerminalAbsorbing ==
    /\ [][( lastCheck.done /\ ~lastCheck.result ) => ~lastCheck'.result]_vars
    /\ [][ctx.origin # "none" =>
            /\ ctx'.current_step >= ctx.current_step
            /\ ctx'.error_count >= ctx.error_count
            /\ ctx'.max_steps = ctx.max_steps
            /\ ctx'.max_errors = ctx.max_errors
            /\ ctx.completed => ctx'.completed]_vars

\* should_continue has returned false a second time for a completed context
\* within its budgets, after a call of think_step, and with a stored score
\* that was 1.0 and is 0.3 now.
C32_Witness ==
    /\ lastCheck.done
    /\ lastCheck.nth = 0
    /\ ~lastCheck.result
    /\ lastCheck.reason = "completed"
    /\ ctx.completed
    /\ ctx.current_step < ctx.max_steps
    /\ ctx.error_count < ctx.max_errors
    /\ thinkCalls > 0
    /\ lastWrite["progress_score"] = "0.3"
    /\ notified["progress_score"] = MaxInputs

\* C33: a call of think_step sets completed exactly when the progress score
\* in the store at that step is 1.0 or more, and then the next-thought hint
\* is the completion hint also after a failed previous result; nothing else
\* sets completed.
C33_CompletionFlag ==
    /\ [][thinkCalls' # thinkCalls =>
            /\ ctx'.completed <=>
                  ( ctx.completed \/ Get(data, "progress_score", "0") = "1" )
            /\ Get(data, "progress_score", "0") = "1" =>
                  lastThink'.next_thought = "done"]_vars
    /\ [][( thinkCalls' = thinkCalls /\ ctx.origin # "none" ) =>
            ctx'.completed = ctx.completed]_vars

\* C34: with a plan of n actions in the store, the k-th call of think_step
\* on a created context takes the k-th entry of the plan for k = 1, ..., n,
\* and the calls after the n-th take no entry of the plan.
C34_PlanFollowing ==
    [][( /\ thinkCalls' # thinkCalls
         /\ ctx.origin = "created"
         /\ data["current_plan"] \in Refs )
       => IF thinkCalls' <= Len(heap[data["current_plan"]].list)
          THEN /\ lastThink'.action = "planned"
               /\ lastThink'.entry = thinkCalls'
          ELSE /\ lastThink'.action # "planned"
               /\ lastThink'.entry = 0]_vars

\* C35: a call of think_step that follows no plan chooses the modal
\* interaction, and no band action, when the stored perception result has
\* the modal flag; otherwise explore below 0.3, act from 0.3 and below 0.7,
\* finalize from 0.7 and below 1.0.
C35_BandSelection ==
    [][( /\ thinkCalls' # thinkCalls
         /\ data["current_plan"] = "Absent" )
       => LET progress == Get(data, "progress_score", "0")
          IN  /\ data["perception_result"] = "modal" =>
                     lastThink'.action = "modal"
              /\ ( data["perception_result"] # "modal" /\ progress = "0" ) =>
                     lastThink'.action = "explore"
              /\ ( data["perception_result"] # "modal" /\ progress = "0.3" ) =>
                     lastThink'.action = "act"
              /\ ( data["perception_result"] # "modal" /\ progress = "0.7" ) =>
                     lastThink'.action = "finalize"]_vars

\* C36: should_continue tests the step budget, then the error budget, then
\* the completion flag, and the reason it reports is the first of them that
\* holds.
C36_EvaluationOrder ==
    [][lastCheck' # lastCheck =>
          /\ lastCheck'.reason = "max_steps"
                <=> ctx.current_step >= ctx.max_steps
          /\ lastCheck'.reason = "max_errors"
                <=> ( /\ ctx.current_step < ctx.max_steps
                      /\ ctx.error_count >= ctx.max_errors )
          /\ lastCheck'.reason = "completed"
                <=> ( /\ ctx.current_step < ctx.max_steps
                      /\ ctx.error_count < ctx.max_errors
                      /\ ctx.completed )]_vars

\* should_continue has reported the step budget for a context that has
\* used up both budgets and is completed as well.
C36_Witness ==
    /\ lastCheck.done
    /\ lastCheck.reason = "max_steps"
    /\ thinkCalls = 0
    /\ ctx.current_step >= ctx.max_steps
    /\ ctx.error_count >= ctx.max_errors
    /\ ctx.completed

\* ------------------------------------------------------------------------
\* Claims on the reflection agent
\* ------------------------------------------------------------------------

\* The pages of a purchase, in their order.
NextPage(page_type) ==
    CASE page_type = "catalog" -> "product"
      [] page_type = "product" -> "cart"
      [] page_type = "cart" -> "checkout"
      [] OTHER -> "none"

\* C19: for a shopping task, a reflection on a catalog, product, cart or
\* checkout page scores 0.2, 0.4, 0.6, 0.8, whatever the action result, and
\* more than the reflection before it when that one was on the page before;
\* every score lies in [0, 1]; and the suggested next action is none
\* exactly when the score is 1.0 or more, which for a shopping task is
\* exactly on a completed page.
C19_ShoppingProgress ==
    [][reflects' # reflects =>
         LET r == lastReflect'
             page_type == PageTypeOf(r.perception)
         IN  /\ 0 <= r.progress_score /\ r.progress_score <= 10
             /\ (r.next_action = "None") <=> (r.progress_score >= 10)
             /\ r.task \in ShoppingTasks =>
                  /\ page_type = "catalog" => r.progress_score = 2
                  /\ page_type = "product" => r.progress_score = 4
                  /\ page_type = "cart" => r.progress_score = 6
                  /\ page_type = "checkout" => r.progress_score = 8
                  /\ (r.progress_score >= 10) <=> (page_type \in CompletedPages)
                  /\ ( /\ reflects > 0
                       /\ page_type = NextPage(PageTypeOf(lastReflect.perception)) )
                     => r.progress_score > lastReflect.progress_score]_vars

\* The four pages have been reflected on in turn, each with a successful
\* action result, and the scores tracked are 0.2, 0.4, 0.6, 0.8.
C19_Witness ==
    /\ lastReflect.task \in ShoppingTasks
    /\ lastReflect.action_result \in {"ok_object", "ok_map"}
    /\ lastReflect.action_successful
    /\ PageTypeOf(lastReflect.perception) = "checkout"
    /\ lastReflect.next_action # "None"
    /\ progress_history = << 2, 2, 4, 4, 6, 6, 8, 8 >>

\* C20: two reflections in a row on the same task description and the same
\* page type give the same score.
C20_ScoreDeterminism ==
    [][( /\ reflects' # reflects
         /\ reflects > 0
         /\ lastReflect'.task = lastReflect.task
         /\ PageTypeOf(lastReflect'.perception) = PageTypeOf(lastReflect.perception) )
       => lastReflect'.progress_score = lastReflect.progress_score]_vars

\* ------------------------------------------------------------------------
\* Claims on the coordinator
\* ------------------------------------------------------------------------

\* C18: during a task run, each step callback advances the thinking context
\* by one step and evaluates should_continue, and the run is over once
\* should_continue is false.
C18_CoordinatorDrives ==
    /\ [][run'.callbacks # run.callbacks =>
             /\ ctx'.current_step = ctx.current_step + 1
             /\ lastCheck' # lastCheck]_vars
    /\ [](run.status = "running" => ShouldContinue(ctx))

\* The places of a trace where a message of the kind is published.
PublishedAt(t, kind) ==
    { i \in DOMAIN t : t[i].op = "publish" /\ t[i].key = kind }

\* The message at place i of the trace carries what was written under the
\* key before it, and what a handler of it finds under the key.
CarriesStored(t, i, key) ==
    /\ \E j \in 1..(i - 1) :
          t[j].op = "set" /\ t[j].key = key /\ t[j].value = t[i].value
    /\ t[i].stored = t[i].value

\* C37: in one step callback the perception result is written before the
\* page-analyzed message is published and the progress score before the
\* progress-updated message, page-analyzed comes before progress-updated,
\* a handler of either finds in the store the value the message carries,
\* and the reflection agent is run only after the perception agent has
\* succeeded.
C37_WriteBeforePublish ==
    [][run'.callbacks # run.callbacks =>
          LET t == run'.trace
              pages == PublishedAt(t, "perception_page_analyzed")
              scores == PublishedAt(t, "reflection_progress_updated")
          IN  /\ \A i \in pages : CarriesStored(t, i, "perception_result")
              /\ \A i \in scores : CarriesStored(t, i, "progress_score")
              /\ \A i \in pages : \A j \in scores : i < j
              /\ ( /\ lastProcess'.nth # lastProcess.nth
                   /\ lastProcess'.agent = "reflection" ) =>
                    /\ pages # {}
                    /\ \A j \in DOMAIN t :
                          t[j].key \in {"reflection_result", "progress_score",
                                        "reflection_action_evaluated",
                                        "reflection_progress_updated",
                                        "reflection_decision_made"}
                              => \A i \in pages : i < j]_vars

\* A step callback on a checkout page has written and published both: the
\* score was 0.0 before and the message carries 0.8.
C37_Witness ==
    /\ run.callbacks > 0
    /\ run.fault = "none"
    /\ PublishedAt(run.trace, "perception_page_analyzed") # {}
    /\ \E i \in PublishedAt(run.trace, "reflection_progress_updated") :
          run.trace[i].value = "0.8" /\ run.trace[i].stored = "0.8"
    /\ \E i \in PublishedAt(run.trace, "perception_page_analyzed") :
          run.trace[i].value = "checkout"

\* C38: a reflection reports the error "no active page" whenever the
\* current URL in the store is empty or blank; each such report adds to the
\* error counter that should_continue compares with max_errors; and the
\* report alone does not end the task run.
C38_StaleStateCounts ==
    [][reflects' # reflects =>
          /\ lastReflect'.url \in {"", "about:blank"} => lastReflect'.stale
          /\ lastReflect'.stale =>
                /\ ctx'.error_count = ctx.error_count + 1
                /\ run'.status = run.status
                /\ lastReflect'.should_continue]_vars

\* The messages of the kind published so far.
PublishedOf(kind) ==
    { i \in DOMAIN message_history : message_history[i].kind = kind }

\* The entries of the error history in the store.
ErrorEntries ==
    IF data["error_history"] \in Refs
        THEN Len(heap[data["error_history"]].list)
    ELSE 0

\* C40: once the perception agent and the reflection agent are made on a
\* bus, each of their handlers is registered exactly once under each kind it
\* is subscribed to; so, when every delivery is done, each ACTION_FAILED
\* message has added one entry to the error history and one
\* REFLECTION_ERROR_ANALYZED message, and each ACTION_COMPLETED message has
\* caused one reflection and one run of the perception agent's process.
C40_OneReactionPerMessage ==
    /\ \A k \in DOMAIN subscribers : \A h \in AgentHandlers :
          Count(subscribers[k], h) <= 1
    /\ \A h \in AgentHandlers : \A i \in DOMAIN pubs :
          Count(received[h], i) <= 1
    /\ queue = << >> =>
          /\ ErrorEntries =
                Cardinality(Range(received["ReflectionAgent._on_action_failed"]))
          /\ Cardinality(PublishedOf("reflection_error_analyzed")) =
                Cardinality(Range(received["ReflectionAgent._on_action_failed"]))
          /\ reflects =
                Cardinality(Range(received["ReflectionAgent._on_action_completed"]))
          /\ lastProcess.nth =
                Cardinality(Range(received["PerceptionAgent._on_action_completed"]))

\* ------------------------------------------------------------------------
\* Claims on the history and the capabilities of the bus
\* ------------------------------------------------------------------------

\* C23: a publish to a kind that has no subscribed handler (none was ever
\* subscribed, or all were unsubscribed) has returned, without an error and
\* without waiting, as soon as it is made, and its message is in the history.
C23_NoSubscribers ==
    \A p \in DOMAIN pubs :
        pubs[p].snapshot = << >> =>
            /\ pubs[p].state = "returned"
            /\ ~pubs[p].escaped
            /\ \E i \in DOMAIN message_history :
                  message_history[i] = pubs[p].msg

\* A handler was subscribed and unsubscribed again, and a publish to its
\* kind, then without a handler, has returned.
C23_Witness ==
    /\ Cardinality(caps) = 1
    /\ invoked # {}
    /\ ~lastUnsub.raised
    /\ ops = lastUnsub.nth + 1
    /\ Len(pubs) = 1
    /\ pubs[1].snapshot = << >>
    /\ pubs[1].state = "returned"
    /\ \A c \in caps : c.kind = pubs[1].msg.kind

\* The messages published so far, those before the behaviour included.
Published == Len(pubs) + Len(EarlierMessages)

\* C24: after n publishes the history holds min(n, capacity) messages, never
\* more than the capacity: the most recently published ones, in the order
\* of their publishes.
C24_BoundedHistory ==
    /\ Len(message_history) = Min(Published, max_history)
    /\ Len(message_history) <= max_history
    /\ \A i \in DOMAIN message_history :
          /\ message_history[i].id = Len(pubs) - Len(message_history) + i
          /\ message_history[i].id >= 1 =>
                message_history[i] = pubs[message_history[i].id].msg

\* The history is full and its oldest messages have been evicted, by
\* publishes that overlapped.
C24_Witness ==
    /\ Len(message_history) = max_history
    /\ Published >= max_history + 2
    /\ message_history[1].id = Len(pubs) - max_history + 1
    /\ \E p \in DOMAIN pubs : pubs[p].parent # 0

\* C25: get_message_history(sender, kind, limit) returns at most limit
\* messages, the last limit ones of the history that match the filters, in
\* the order of the history, and leaves the history as it was.
C25_HistoryQuery ==
    [][lastQuery' # lastQuery =>
         LET q == lastQuery'
             match == SelectSeq(message_history,
                                LAMBDA m : Matches(m, q.sender, q.kind))
             ids == [i \in DOMAIN match |-> match[i].id]
         IN  /\ Len(q.result) <= q.limit
             /\ q.result = LastOf(ids, q.limit)
             /\ message_history' = message_history]_vars

\* The closure that was called last.
LastCap == CHOOSE c \in caps : c.id = lastUnsub'.cap

\* C26: a call of the closure that subscribe returned does not fail; the
\* first call removes one registration of its handler under its kind, a
\* later call removes none; and no call changes the registrations of another
\* handler or kind.
C26_UnsubscribeCapability ==
    [][lastUnsub' # lastUnsub =>
         /\ ~lastUnsub'.raised
         /\ Count(subscribers'[LastCap.kind], LastCap.handler) =
               Count(subscribers[LastCap.kind], LastCap.handler)
                  - (IF lastUnsub'.again THEN 0 ELSE 1)
         /\ \A k \in UsedKinds, h \in Handlers :
               (k # LastCap.kind \/ h # LastCap.handler) =>
                  Count(subscribers'[k], h) = Count(subscribers[k], h)]_vars

\* ------------------------------------------------------------------------
\* Claims on the task runs of the coordinator
\* ------------------------------------------------------------------------

(* C27  Task status values and order: the task status read from the store   *)
(* is always one of pending, running, completed, failed, and so is what     *)
(* get_stats and get_context_summary report, also before a task starts; it  *)
(* is pending before the run, running during it, completed once the         *)
(* external agent's run has returned and failed once it has raised.         *)
C27_TaskStatus ==
    LET status == Get(data, "task_status", "None")
    IN  /\ status \in TaskStatuses
        /\ GetStats.task_status \in TaskStatuses
        /\ GetContextSummary.task_status \in TaskStatuses
        /\ run.status = "none" => status = "pending"
        /\ run.status # "none" => status = run.status

(* C30  Store lifecycle: when a second task run starts on the coordinator,  *)
(* the store holds no last action result, no perception result and no       *)
(* context hints, the thought chain is empty, and the reflection agent's    *)
(* progress history is empty.                                               *)
C30_StoreLifecycle ==
    (run.runs > 1 /\ run.status = "running" /\ run.callbacks = 0) =>
        /\ data["last_action_result"] = "Absent"
        /\ data["perception_result"] = "Absent"
        /\ data["context_hints"] = "Absent"
        /\ hints = NoHints
        /\ heap[data["thought_chain"]].list = << >>
        /\ progress_history = << >>

(* C28  Failure containment in the step callback: whatever fails while the  *)
(* coordinator processes a step (the adapter's update, the URL lookup, a    *)
(* write to the store, the perception, the reflection), the callback        *)
(* returns normally, the run stays running, and the task status in the      *)
(* store stays what it was.                                                 *)
C28_FailureContained ==
    [][run'.callbacks = run.callbacks + 1 =>
          /\ ~run'.escaped
          /\ run.status = "running" /\ run'.status = "running"
          /\ data["task_status"] = "running"
          /\ data'["task_status"] = "running"
          /\ run'.current_step = run'.callbacks]_vars

\* A run whose second step has failed at a write inside an agent's process
\* has gone on until the external agent has returned.
C28_Witness ==
    /\ run.callbacks = 2
    /\ run.fault = "write"
    /\ lastProcess.fault = "write" /\ ~lastProcess.success
    /\ ~run.escaped
    /\ run.status = "completed"
    /\ data["task_status"] = "completed"

\* ------------------------------------------------------------------------
\* Claims on the agents' process
\* ------------------------------------------------------------------------

(* C22  Agent process never throws: every call of process of the            *)
(* perception and of the reflection agent returns a result with a success   *)
(* flag; when something inside has failed, a write to the store or a        *)
(* publish included, the result is {success: false, error}, and a result    *)
(* with success true carries the perception or the reflection.              *)
C22_ProcessNeverThrows ==
    lastProcess.agent # "none" =>
        /\ lastProcess.returned
        /\ ~lastProcess.raised
        /\ lastProcess.fault # "none" =>
              ~lastProcess.success /\ lastProcess.error # "None"
        /\ lastProcess.success <=> lastProcess.payload
        /\ lastProcess.success <=> lastProcess.error = "None"

\* A publish has failed in the reflection agent's process after a write
\* had failed in the perception agent's: the store holds what was written
\* before.
C22_Witness ==
    /\ lastProcess.agent = "reflection"
    /\ lastProcess.fault = "publish"
    /\ lastProcess.returned /\ ~lastProcess.success
    /\ lastProcess.nth > 1
    /\ data["reflection_result"] # "Absent"
    /\ data["perception_result"] = "Absent"

(* C21  Progress-made flag: the flag progress_made of a reflection is true  *)
(* exactly when the score it has computed is greater than the score the     *)
(* reflection before it has computed (0.0 before the first).                *)
C21_ProgressMade ==
    [][reflects' = reflects + 1 =>
          (lastReflect'.progress_made <=>
              lastReflect'.progress_score > lastReflect.progress_score)]_vars

(* C29  Context Hints bounds: the context hints that the store holds after  *)
(* any calls of the two agents' process have at most 3 observations, 5      *)
(* patterns, 2 warnings and 4 suggested categories.                         *)
C29_HintsBounded ==
    /\ Len(hints.observations) <= 3
    /\ Len(hints.patterns) <= 5
    /\ Len(hints.warnings) <= 2
    /\ Cardinality(hints.suggested_categories) <= 4

====
